---- MODULE Spec2Model ----
(***************************************************************************)
(* Live-telemetry reconciliation engine of the railway tracker: the store   *)
(* (src/src/main.tsx), the resolver and merger (src/src/services/           *)
(* liveData.ts) and the sweeper, persistence and cold start                 *)
(* (src/src/services/dataLoader.ts); beside it the shared feed connection   *)
(* (src/src/services/socket.ts), the start-up check of the persisted store  *)
(* (Main) and the track cache (trackCache.ts).                              *)
(*                                                                          *)
(* Conventions of the model:                                                *)
(*   - a JavaScript string is a sequence of one-character strings, so that  *)
(*     suffix tests, slicing and number parsing are computed, not assumed;  *)
(*     the locomotive identifier, only ever compared with ===, is a TLA+    *)
(*     string, "" standing for null;                                        *)
(*   - an optional value (undefined / null) is a sequence of length 0 or 1: *)
(*     None is <<>>, Some(x) is <<x>>; an undefined string is the empty     *)
(*     sequence (both are falsy, and no identifier of the program is "");   *)
(*   - an undefined array (liveRuns) is the empty sequence: the code reads  *)
(*     it only through `?? []`, `?.length` and `!runs || runs.length === 0`;*)
(*   - scores are counted in quarter points (10 -> 40, 4 -> 16, 1 -> 4,     *)
(*     0.5 -> 2, 0.25 -> 1) to stay in the integers.                        *)
(***************************************************************************)
EXTENDS Integers, Sequences, FiniteSets, TLC

None == <<>>
Some(x) == <<x>>

(***************************************************************************)
(* Strings                                                                  *)
(***************************************************************************)
Digits == {"0", "1", "2", "3", "4", "5", "6", "7", "8", "9"}

DigitVal(c) ==
  CASE c = "0" -> 0 [] c = "1" -> 1 [] c = "2" -> 2 [] c = "3" -> 3
    [] c = "4" -> 4 [] c = "5" -> 5 [] c = "6" -> 6 [] c = "7" -> 7
    [] c = "8" -> 8 [] c = "9" -> 9

DigitChar(n) ==
  CASE n = 0 -> "0" [] n = 1 -> "1" [] n = 2 -> "2" [] n = 3 -> "3"
    [] n = 4 -> "4" [] n = 5 -> "5" [] n = 6 -> "6" [] n = 7 -> "7"
    [] n = 8 -> "8" [] n = 9 -> "9"

\* String.prototype.endsWith
EndsWith(s, suffix) ==
  /\ Len(s) >= Len(suffix)
  /\ SubSeq(s, Len(s) - Len(suffix) + 1, Len(s)) = suffix

\* String.prototype.slice(0, -n)
DropLast(s, n) == IF Len(s) <= n THEN <<>> ELSE SubSeq(s, 1, Len(s) - n)

RECURSIVE DecimalValue(_)
DecimalValue(s) ==
  IF s = <<>> THEN 0
  ELSE 10 * DecimalValue(DropLast(s, 1)) + DigitVal(s[Len(s)])

\* Number(text) followed by Number.isFinite: the empty string is 0, a string
\* of decimal digits is its value, any other text of the model is NaN (None).
NumberOf(s) ==
  IF \A i \in 1..Len(s) : s[i] \in Digits THEN Some(DecimalValue(s)) ELSE None

\* String(n) for a non-negative integer
RECURSIVE NumToString(_)
NumToString(n) ==
  IF n < 10 THEN <<DigitChar(n)>>
  ELSE NumToString(n \div 10) \o <<DigitChar(n % 10)>>

\* String.prototype.toLowerCase on the alphabet of the model
LowerChar(c) ==
  CASE c = "A" -> "a" [] c = "B" -> "b" [] c = "C" -> "c" [] OTHER -> c

ToLower(s) == [i \in 1..Len(s) |-> LowerChar(s[i])]

\* String.prototype.includes
Includes(s, part) ==
  \E i \in 0..(Len(s) - Len(part)) : SubSeq(s, i + 1, i + Len(part)) = part

Suffix9900 == <<"9", "9", "0", "0">>
Suffix099900 == <<"0", "9", "9", "9", "0", "0">>

extractTrainNumberFromKey(value) ==
  IF value = <<>> THEN None
  ELSE IF EndsWith(value, Suffix9900) THEN NumberOf(DropLast(value, 4))
  ELSE IF EndsWith(value, Suffix099900) THEN NumberOf(DropLast(value, 6))
  ELSE NumberOf(value)

\* a ?? b
Coalesce(a, b) == IF a # None THEN a ELSE b

\* `${trainKey}:${variantKey}`
DeltaId(trainKey, variantKey) == trainKey \o <<":">> \o variantKey

(***************************************************************************)
(* The static dataset                                                       *)
(***************************************************************************)
Stop(stationId, order, name, dayCount) ==
  [StationId |-> stationId, OrderNumber |-> order, StationName |-> name,
   DayCount |-> dayCount]

\* buildStaticDataset: upcomingStop is route[0], previousStop undefined, no
\* live fields; IsLive is whatever the schedule API reports.
StaticTrain(id, number, name, isUp, loco, route, isLive) ==
  [TrainId |-> id, TrainNumber |-> number, TrainName |-> name, IsUp |-> isUp,
   LocomotiveNumber |-> loco, route |-> route, IsLive |-> isLive,
   liveRuns |-> <<>>, selectedRunId |-> None, livePosition |-> None,
   upcomingStop |-> IF route = <<>> THEN None ELSE Some(route[1]),
   previousStop |-> None]

\* Three scheduled trains: 5 has a train number of its own; 5 and 6 share a
\* locomotive and a station; 6 and 7 share a train number; 7 has no route.
StaticTrains ==
  << StaticTrain(5, 123, <<"A", "x">>, TRUE, "L9",
                 << Stop(17, 1, <<"A">>, Some(1)), Stop(18, 2, <<"b">>, None) >>,
                 FALSE),
     StaticTrain(6, 456, <<"B", "y">>, FALSE, "L9",
                 << Stop(17, 1, <<"A">>, Some(1)), Stop(19, 2, <<"c">>, Some(2)) >>,
                 FALSE),
     StaticTrain(7, 456, <<"c", "z">>, FALSE, "", <<>>, TRUE) >>

(***************************************************************************)
(* Deltas                                                                   *)
(***************************************************************************)
\* parseSocketPayload, for a payload with a finite position: the identity and
\* the train-number hint are derived from the two keys.
MakeDelta(src, lastUpdated) ==
  [id |-> DeltaId(src.trainKey, src.variantKey),
   trainKey |-> src.trainKey,
   variantKey |-> src.variantKey,
   locomitiveNo |-> src.locomitiveNo,
   lastUpdated |-> lastUpdated,
   nextStationId |-> src.nextStationId,
   nextStopName |-> src.nextStopName,
   prevStationId |-> src.prevStationId,
   trainNumber |-> Coalesce(extractTrainNumberFromKey(src.trainKey),
                            extractTrainNumberFromKey(src.variantKey)),
   dayNumber |-> None,
   direction |-> src.direction]

Source(trainKey, variantKey, loco, next, prev, nextStop, direction) ==
  [trainKey |-> trainKey, variantKey |-> variantKey, locomitiveNo |-> loco,
   nextStationId |-> next, prevStationId |-> prev, nextStopName |-> nextStop,
   direction |-> direction]

\* The transport-level sources the feed reports under.
SrcA == Source(<<"1", "2", "3">>, Suffix9900, "", Some(17), None, <<>>, "unknown")
SrcB == Source(<<"1", "2", "3">>, <<"1">>, "", Some(18), Some(17), <<>>, "up")
SrcC == Source(<<"4", "5", "6">>, Suffix9900, "", Some(19), None, <<>>, "unknown")
SrcD == Source(<<"x">>, <<"1">>, "L9", None, None, <<>>, "unknown")

Sources == {SrcA, SrcB, SrcC, SrcD}

(***************************************************************************)
(* Resolver (liveData.ts)                                                   *)
(***************************************************************************)
\* Array.prototype.findIndex, hits being the positions where the callback
\* holds: the first of them, 1-based, 0 for -1
FindIndex(hits) ==
  IF hits = {} THEN 0 ELSE CHOOSE i \in hits : \A j \in hits : i <= j

\* Array.prototype.find as an option, hits being the positions of seq where
\* the callback holds
FindFirst(seq, hits) ==
  IF hits = {} THEN None ELSE Some(seq[FindIndex(hits)])

\* a station id is truthy when it is present and not 0
Truthy(optNum) == optNum # None /\ optNum # Some(0)

findStopByStationId(route, stationId) ==
  IF ~Truthy(stationId) THEN None
  ELSE FindFirst(route, {i \in 1..Len(route) : route[i].StationId = stationId[1]})

\* the score of one train against a Delta, in quarter points
Score(train, delta) ==
  LET nextStop == findStopByStationId(train.route, delta.nextStationId)
      prevStop == findStopByStationId(train.route, delta.prevStationId)
      nextIndex == FindIndex({i \in 1..Len(train.route) :
                                Some(train.route[i].StationId) = delta.nextStationId})
      prevIndex == FindIndex({i \in 1..Len(train.route) :
                                Some(train.route[i].StationId) = delta.prevStationId})
      nameLower == ToLower(delta.nextStopName)
      loco == IF delta.locomitiveNo # "" /\ train.LocomotiveNumber # ""
                 /\ delta.locomitiveNo = train.LocomotiveNumber THEN 40 ELSE 0
      next == IF nextStop # None THEN 16 ELSE 0
      prev == IF prevStop # None THEN 16 ELSE 0
      order == IF nextStop # None /\ prevStop # None /\ prevIndex # 0
                  /\ nextIndex # 0 /\ prevIndex < nextIndex THEN 4 ELSE 0
      dir == IF delta.direction # "unknown"
                /\ train.IsUp = (delta.direction = "up") THEN 4 ELSE 0
      name == IF delta.nextStopName = <<>> THEN 0
              ELSE IF \E i \in 1..Len(train.route) :
                        ToLower(train.route[i].StationName) = nameLower THEN 2
              ELSE IF Includes(ToLower(train.TrainName), nameLower) THEN 1
              ELSE 0
  IN loco + next + prev + order + dir + name

\* the train-number short-circuit: trains.find(TrainNumber === trainNumber)
NumberMatch(trains, delta) ==
  IF delta.trainNumber = None THEN None
  ELSE FindFirst(trains, {i \in 1..Len(trains) :
                             trains[i].TrainNumber = delta.trainNumber[1]})

\* the scoring steps without the tie check: the first of the best candidates
ScoredMatchFirstBest(trains, delta) ==
  LET cand == {i \in 1..Len(trains) : Score(trains[i], delta) > 0}
      best == {i \in cand : \A j \in cand :
                  Score(trains[j], delta) <= Score(trains[i], delta)}
  IN IF cand = {} THEN None
     ELSE Some(trains[CHOOSE i \in best : \A j \in best : i <= j].TrainId)

\* the scoring steps: the single best candidate above zero, else undefined
ScoredMatch(trains, delta) ==
  LET cand == {i \in 1..Len(trains) : Score(trains[i], delta) > 0}
      best == {i \in cand : \A j \in cand :
                  Score(trains[j], delta) <= Score(trains[i], delta)}
  IN IF cand = {} THEN None
     ELSE IF Cardinality(best) > 1 THEN None
     ELSE Some(trains[CHOOSE i \in best : TRUE].TrainId)

findMatchingTrainId(trains, delta) ==
  LET numberMatch == NumberMatch(trains, delta)
  IN IF numberMatch # None THEN Some(numberMatch[1].TrainId)
     ELSE ScoredMatch(trains, delta)

(***************************************************************************)
(* Run merger (liveData.ts)                                                 *)
(***************************************************************************)
\* computeStopsForRun falling back to the first stop of the route when the
\* next station is not found
computeStopsForRunDefaulting(train, run) ==
  IF run = None
  THEN [upcomingStop |-> None, previousStop |-> None]
  ELSE [upcomingStop |->
          Coalesce(findStopByStationId(train.route, run[1].nextStationId),
                   IF train.route = <<>> THEN None ELSE Some(train.route[1])),
        previousStop |-> findStopByStationId(train.route, run[1].prevStationId)]

computeStopsForRun(train, run) ==
  IF run = None
  THEN [upcomingStop |-> None, previousStop |-> None]
  ELSE [upcomingStop |-> findStopByStationId(train.route, run[1].nextStationId),
        previousStop |-> findStopByStationId(train.route, run[1].prevStationId)]

deriveDayNumber(train, delta) ==
  LET upcomingStop == findStopByStationId(train.route, delta.nextStationId)
      previousStop == findStopByStationId(train.route, delta.prevStationId)
  IN IF upcomingStop # None THEN upcomingStop[1].DayCount
     ELSE IF previousStop # None THEN previousStop[1].DayCount
     ELSE delta.dayNumber

\* one step of the stable sort by lastUpdated descending: x goes after every
\* Run that is at least as recent
InsertByRecency(sorted, x) ==
  LET k == Cardinality({i \in 1..Len(sorted) : sorted[i].lastUpdated >= x.lastUpdated})
  IN SubSeq(sorted, 1, k) \o <<x>> \o SubSeq(sorted, k + 1, Len(sorted))

\* runs.sort((a, b) => b.lastUpdated - a.lastUpdated), a stable sort
RECURSIVE SortByRecency(_)
SortByRecency(runs) ==
  IF runs = <<>> THEN <<>>
  ELSE InsertByRecency(SortByRecency(SubSeq(runs, 1, Len(runs) - 1)), runs[Len(runs)])

\* updateTrainWithDelta without the filter that drops the Run of the same id
updateTrainWithDeltaKeepingOld(train, delta, preferredRunId) ==
  LET normalizedDelta == [delta EXCEPT !.dayNumber = deriveDayNumber(train, delta)]
      mergedRuns == SortByRecency(Append(train.liveRuns, normalizedDelta))
      desiredRunId == IF preferredRunId # None THEN preferredRunId[1]
                      ELSE IF train.selectedRunId # None THEN train.selectedRunId
                      ELSE normalizedDelta.id
      found == FindFirst(mergedRuns, {k \in 1..Len(mergedRuns) :
                                        mergedRuns[k].id = desiredRunId})
      selectedRun == IF found # None THEN found[1] ELSE mergedRuns[1]
      stops == computeStopsForRun(train, Some(selectedRun))
  IN [train EXCEPT !.IsLive = TRUE,
                   !.liveRuns = mergedRuns,
                   !.selectedRunId = selectedRun.id,
                   !.livePosition = Some(selectedRun),
                   !.upcomingStop = stops.upcomingStop,
                   !.previousStop = stops.previousStop]

\* updateTrainWithDelta selecting the most recent Run, whatever was selected
updateTrainWithDeltaSelectingLatest(train, delta, preferredRunId) ==
  LET normalizedDelta == [delta EXCEPT !.dayNumber = deriveDayNumber(train, delta)]
      Other(run) == run.id # normalizedDelta.id
      mergedRuns == SortByRecency(Append(SelectSeq(train.liveRuns, Other), normalizedDelta))
      selectedRun == mergedRuns[1]
      stops == computeStopsForRun(train, Some(selectedRun))
  IN [train EXCEPT !.IsLive = TRUE,
                   !.liveRuns = mergedRuns,
                   !.selectedRunId = selectedRun.id,
                   !.livePosition = Some(selectedRun),
                   !.upcomingStop = stops.upcomingStop,
                   !.previousStop = stops.previousStop]

\* updateTrainWithDelta without the sort: the new Run goes last
updateTrainWithDeltaUnsorted(train, delta, preferredRunId) ==
  LET normalizedDelta == [delta EXCEPT !.dayNumber = deriveDayNumber(train, delta)]
      Other(run) == run.id # normalizedDelta.id
      mergedRuns == Append(SelectSeq(train.liveRuns, Other), normalizedDelta)
      desiredRunId == IF preferredRunId # None THEN preferredRunId[1]
                      ELSE IF train.selectedRunId # None THEN train.selectedRunId
                      ELSE normalizedDelta.id
      found == FindFirst(mergedRuns, {k \in 1..Len(mergedRuns) :
                                        mergedRuns[k].id = desiredRunId})
      selectedRun == IF found # None THEN found[1] ELSE mergedRuns[1]
      stops == computeStopsForRun(train, Some(selectedRun))
  IN [train EXCEPT !.IsLive = TRUE,
                   !.liveRuns = mergedRuns,
                   !.selectedRunId = selectedRun.id,
                   !.livePosition = Some(selectedRun),
                   !.upcomingStop = stops.upcomingStop,
                   !.previousStop = stops.previousStop]

\* updateTrainWithDelta showing the Delta that arrived as the position
updateTrainWithDeltaPositionOfDelta(train, delta, preferredRunId) ==
  LET normalizedDelta == [delta EXCEPT !.dayNumber = deriveDayNumber(train, delta)]
      Other(run) == run.id # normalizedDelta.id
      mergedRuns == SortByRecency(Append(SelectSeq(train.liveRuns, Other), normalizedDelta))
      desiredRunId == IF preferredRunId # None THEN preferredRunId[1]
                      ELSE IF train.selectedRunId # None THEN train.selectedRunId
                      ELSE normalizedDelta.id
      found == FindFirst(mergedRuns, {k \in 1..Len(mergedRuns) :
                                        mergedRuns[k].id = desiredRunId})
      selectedRun == IF found # None THEN found[1] ELSE mergedRuns[1]
      stops == computeStopsForRun(train, Some(selectedRun))
  IN [train EXCEPT !.IsLive = TRUE,
                   !.liveRuns = mergedRuns,
                   !.selectedRunId = selectedRun.id,
                   !.livePosition = Some(normalizedDelta),
                   !.upcomingStop = stops.upcomingStop,
                   !.previousStop = stops.previousStop]

updateTrainWithDelta(train, delta, preferredRunId) ==
  LET normalizedDelta == [delta EXCEPT !.dayNumber = deriveDayNumber(train, delta)]
      Other(run) == run.id # normalizedDelta.id
      filteredRuns == SelectSeq(train.liveRuns, Other)
      mergedRuns == SortByRecency(Append(filteredRuns, normalizedDelta))
      desiredRunId == IF preferredRunId # None THEN preferredRunId[1]
                      ELSE IF train.selectedRunId # None THEN train.selectedRunId
                      ELSE normalizedDelta.id
      found == FindFirst(mergedRuns, {k \in 1..Len(mergedRuns) :
                                        mergedRuns[k].id = desiredRunId})
      selectedRun == IF found # None THEN found[1] ELSE mergedRuns[1]
      stops == computeStopsForRun(train, Some(selectedRun))
  IN [train EXCEPT !.IsLive = TRUE,
                   !.liveRuns = mergedRuns,
                   !.selectedRunId = selectedRun.id,
                   !.livePosition = Some(selectedRun),
                   !.upcomingStop = stops.upcomingStop,
                   !.previousStop = stops.previousStop]

\* applyRunSelectionToTrain without the early return for a Run that is not there
applyRunSelectionUnchecked(train, runId) ==
  LET run == FindFirst(train.liveRuns, {k \in 1..Len(train.liveRuns) :
                                          train.liveRuns[k].id = runId})
      stops == computeStopsForRun(train, run)
  IN [train EXCEPT !.IsLive = TRUE,
                   !.selectedRunId = runId,
                   !.livePosition = run,
                   !.upcomingStop = stops.upcomingStop,
                   !.previousStop = stops.previousStop]

\* applyRunSelectionToTrain leaving the stops of the train as they are
applyRunSelectionKeepingStops(train, runId) ==
  LET run == FindFirst(train.liveRuns, {k \in 1..Len(train.liveRuns) :
                                          train.liveRuns[k].id = runId})
  IN IF run = None THEN train
     ELSE [train EXCEPT !.IsLive = TRUE,
                        !.selectedRunId = run[1].id,
                        !.livePosition = run]

applyRunSelectionToTrain(train, runId) ==
  LET run == FindFirst(train.liveRuns, {k \in 1..Len(train.liveRuns) :
                                          train.liveRuns[k].id = runId})
      stops == computeStopsForRun(train, run)
  IN IF run = None THEN train
     ELSE [train EXCEPT !.IsLive = TRUE,
                        !.selectedRunId = run[1].id,
                        !.livePosition = run,
                        !.upcomingStop = stops.upcomingStop,
                        !.previousStop = stops.previousStop]

(***************************************************************************)
(* Staleness sweeper (dataLoader.ts)                                        *)
(***************************************************************************)
STALE_LIVE_RUN_TTL_MS == 10 * 60 * 1000

sameStop(a, b) ==
  IF a = None /\ b = None THEN TRUE
  ELSE IF a = None \/ b = None THEN FALSE
  ELSE a[1].StationId = b[1].StationId /\ a[1].OrderNumber = b[1].OrderNumber

\* resetTrainLiveState clearing the Runs and the position only
resetTrainLiveStatePartial(train) ==
  IF train.livePosition = None /\ train.liveRuns = <<>>
     /\ train.selectedRunId = None /\ ~train.IsLive
  THEN train
  ELSE [train EXCEPT !.IsLive = FALSE, !.livePosition = None, !.liveRuns = <<>>]

resetTrainLiveState(train) ==
  IF train.livePosition = None /\ train.liveRuns = <<>>
     /\ train.selectedRunId = None /\ ~train.IsLive
  THEN train
  ELSE [train EXCEPT !.IsLive = FALSE,
                     !.livePosition = None,
                     !.liveRuns = <<>>,
                     !.selectedRunId = None,
                     !.upcomingStop = IF train.route = <<>> THEN None
                                      ELSE Some(train.route[1]),
                     !.previousStop = None]

\* isRunFresh with the boundary excluded
isRunFreshStrict(run, now) == now - run.lastUpdated < STALE_LIVE_RUN_TTL_MS

isRunFresh(run, now) == now - run.lastUpdated <= STALE_LIVE_RUN_TTL_MS

sanitizeTrainLiveState(train, now) ==
  LET runs == train.liveRuns
      Fresh(run) == isRunFresh(run, now)
      freshRuns == SelectSeq(runs, Fresh)
      found == FindFirst(freshRuns, {k \in 1..Len(freshRuns) :
                                       freshRuns[k].id = train.selectedRunId})
      selectedRun == IF found # None THEN found[1] ELSE freshRuns[1]
      upcomingStop ==
        IF Truthy(selectedRun.nextStationId)
        THEN FindFirst(train.route, {i \in 1..Len(train.route) :
               Some(train.route[i].StationId) = selectedRun.nextStationId})
        ELSE None
      previousStop ==
        IF Truthy(selectedRun.prevStationId)
        THEN FindFirst(train.route, {i \in 1..Len(train.route) :
               Some(train.route[i].StationId) = selectedRun.prevStationId})
        ELSE None
      requiresUpdate == \/ Len(freshRuns) # Len(runs)
                        \/ train.selectedRunId # selectedRun.id
                        \/ ~sameStop(train.upcomingStop, upcomingStop)
                        \/ ~sameStop(train.previousStop, previousStop)
                        \/ ~train.IsLive
  IN IF runs = <<>> THEN resetTrainLiveState(train)
     ELSE IF freshRuns = <<>> THEN resetTrainLiveState(train)
     ELSE IF ~requiresUpdate THEN train
     ELSE [train EXCEPT !.IsLive = TRUE,
                        !.liveRuns = freshRuns,
                        !.selectedRunId = selectedRun.id,
                        !.livePosition = Some(selectedRun),
                        !.upcomingStop = upcomingStop,
                        !.previousStop = previousStop]

stripStaleLiveData(trainList, now) ==
  [i \in 1..Len(trainList) |-> sanitizeTrainLiveState(trainList[i], now)]

(***************************************************************************)
(* Maps                                                                     *)
(***************************************************************************)
EmptyMap == <<>>

\* Map.prototype.set
MapSet(m, k, v) == [x \in (DOMAIN m) \cup {k} |-> IF x = k THEN v ELSE m[x]]

\* Map.prototype.delete
MapDelete(m, k) == [x \in (DOMAIN m) \ {k} |-> m[x]]

\* Map.prototype.get as an option
MapGet(m, k) == IF k \in DOMAIN m THEN Some(m[k]) ELSE None

(***************************************************************************)
(* Store reducers (main.tsx)                                                *)
(***************************************************************************)
\* the cached train of a Delta: by id, trainKey, variantKey, then train number
mappedTrainId(trainKeyToId, delta) ==
  Coalesce(MapGet(trainKeyToId, delta.id),
  Coalesce(MapGet(trainKeyToId, delta.trainKey),
  Coalesce(MapGet(trainKeyToId, delta.variantKey),
           IF delta.trainNumber # None
           THEN MapGet(trainKeyToId, NumToString(delta.trainNumber[1]))
           ELSE None)))

\* the target found by the resolver on every Delta, the cache not consulted
resolveTargetRescoring(st, delta) == findMatchingTrainId(st.trains, delta)

\* mappedTrainId || findMatchingTrainId(trains, delta); 0 is falsy
resolveTarget(st, delta) ==
  LET mapped == mappedTrainId(st.trainKeyToId, delta)
  IN IF Truthy(mapped) THEN mapped ELSE findMatchingTrainId(st.trains, delta)

\* trainKeyToId after the set() calls of one attributed Delta: its id, its
\* trainKey, its variantKey, and its train number when it has one
cacheTarget(cache, delta, id) ==
  LET keyed == MapSet(MapSet(MapSet(cache, delta.id, id), delta.trainKey, id),
                      delta.variantKey, id)
  IN IF delta.trainNumber # None
     THEN MapSet(keyed, NumToString(delta.trainNumber[1]), id)
     ELSE keyed

\* trains.map(train => train.TrainId === id ? updateTrainWithDelta(..) : train)
mergeIntoTarget(trainList, pins, delta, id) ==
  [i \in 1..Len(trainList) |->
     IF trainList[i].TrainId = id
     THEN updateTrainWithDelta(trainList[i], delta, MapGet(pins, trainList[i].TrainId))
     ELSE trainList[i]]

\* trains.find(train => train.TrainId === id)
findTrain(trainList, id) ==
  FindFirst(trainList, {i \in 1..Len(trainList) : trainList[i].TrainId = id})

\* if (updatedTrain?.selectedRunId) selectedRunIds.set(id, updatedTrain.selectedRunId)
pinSelectedRun(pins, id, updatedTrain) ==
  IF updatedTrain # None /\ updatedTrain[1].selectedRunId # None
  THEN MapSet(pins, id, updatedTrain[1].selectedRunId)
  ELSE pins

\* the branch of a Delta with a target train, newTrains being the merged list
attributeDelta(st, delta, id, newTrains) ==
  [trains |-> newTrains,
   liveDeltas |-> MapSet(st.liveDeltas, delta.trainKey, delta),
   trainKeyToId |-> cacheTarget(st.trainKeyToId, delta, id),
   selectedRunIds |-> pinSelectedRun(st.selectedRunIds, id, findTrain(newTrains, id)),
   unresolvedDeltas |-> MapDelete(st.unresolvedDeltas, delta.id)]

\* the branch of a Delta without a target train
parkDelta(st, delta) ==
  [st EXCEPT !.liveDeltas = MapSet(st.liveDeltas, delta.trainKey, delta),
             !.unresolvedDeltas = MapSet(st.unresolvedDeltas, delta.id, delta)]

\* the body of deltas.forEach without its else branch: a Delta with no target
\* train is recorded in liveDeltas only
processDeltaDroppingUnresolved(st, delta) ==
  LET target == resolveTarget(st, delta)
  IN IF Truthy(target)
     THEN attributeDelta(st, delta, target[1],
                         mergeIntoTarget(st.trains, st.selectedRunIds, delta, target[1]))
     ELSE [st EXCEPT !.liveDeltas = MapSet(st.liveDeltas, delta.trainKey, delta)]

\* the body of deltas.forEach in processDeltas
processDelta(st, delta) ==
  LET target == resolveTarget(st, delta)
  IN IF Truthy(target)
     THEN attributeDelta(st, delta, target[1],
                         mergeIntoTarget(st.trains, st.selectedRunIds, delta, target[1]))
     ELSE parkDelta(st, delta)

\* processDeltas handling the first Delta of the batch only
processDeltasHeadOnly(st, deltas) ==
  IF deltas = <<>> THEN st ELSE processDelta(st, Head(deltas))

RECURSIVE processDeltas(_, _)
processDeltas(st, deltas) ==
  IF deltas = <<>> THEN st
  ELSE processDeltas(processDelta(st, Head(deltas)), Tail(deltas))

\* the pins left when the sweep changed a train: those of the trains that
\* still hold a selected Run
keepSelected(pins, sanitizedTrains) ==
  LET unselected == {sanitizedTrains[i].TrainId : i \in
                       {j \in 1..Len(sanitizedTrains) :
                          sanitizedTrains[j].selectedRunId = None}}
  IN [k \in (DOMAIN pins) \ unselected |-> pins[k]]

\* the fresh entries of the liveDeltas map
freshLiveDeltas(live, now) ==
  [k \in {key \in DOMAIN live : ~(now - live[key].lastUpdated > STALE_LIVE_RUN_TTL_MS)}
     |-> live[k]]

\* the state pruneStaleData returns, sanitizedTrains being the stripped list
prunedState(st, now, sanitizedTrains) ==
  [st EXCEPT !.trains = sanitizedTrains,
             !.liveDeltas = freshLiveDeltas(st.liveDeltas, now),
             !.selectedRunIds = IF sanitizedTrains # st.trains
                                THEN keepSelected(st.selectedRunIds, sanitizedTrains)
                                ELSE st.selectedRunIds]

pruneStaleData(st, now) == prunedState(st, now, stripStaleLiveData(st.trains, now))

(***************************************************************************)
(* Persisted store (db.ts tables, dataLoader.ts)                            *)
(***************************************************************************)
\* char codes of the alphabet of the keys, for the order of a string index
CharCode(c) == IF c \in Digits THEN 48 + DigitVal(c) ELSE IF c = ":" THEN 58 ELSE 120

RECURSIVE StringLess(_, _)
StringLess(a, b) ==
  IF b = <<>> THEN FALSE
  ELSE IF a = <<>> THEN TRUE
  ELSE IF CharCode(Head(a)) # CharCode(Head(b)) THEN CharCode(Head(a)) < CharCode(Head(b))
  ELSE StringLess(Tail(a), Tail(b))

\* db.trains.toArray(): the rows in primary-key (TrainId) order
RECURSIVE TrainsToArray(_)
TrainsToArray(table) ==
  IF DOMAIN table = {} THEN <<>>
  ELSE LET k == CHOOSE x \in DOMAIN table : \A y \in DOMAIN table : x <= y
       IN <<table[k]>> \o TrainsToArray(MapDelete(table, k))

\* db.liveDeltas.orderBy('lastUpdated').toArray(): index order, ties by id
RECURSIVE DeltasByLastUpdated(_)
DeltasByLastUpdated(table) ==
  IF DOMAIN table = {} THEN <<>>
  ELSE LET Before(x, y) == \/ table[x].lastUpdated < table[y].lastUpdated
                           \/ /\ table[x].lastUpdated = table[y].lastUpdated
                              /\ StringLess(x, y)
           k == CHOOSE x \in DOMAIN table : \A y \in (DOMAIN table) \ {x} : Before(x, y)
       IN <<table[k]>> \o DeltasByLastUpdated(MapDelete(table, k))

\* table.bulkPut(rows) of a table keyed by TrainId
RECURSIVE BulkPutTrains(_, _)
BulkPutTrains(table, rows) ==
  IF rows = <<>> THEN table
  ELSE BulkPutTrains(MapSet(table, Head(rows).TrainId, Head(rows)), Tail(rows))

\* db.liveDeltas.bulkPut(deltas), keyed by id
RECURSIVE persistLiveDeltas(_, _)
persistLiveDeltas(table, deltas) ==
  IF deltas = <<>> THEN table
  ELSE persistLiveDeltas(MapSet(table, Head(deltas).id, Head(deltas)), Tail(deltas))

\* the delete with belowOrEqual in place of below
pruneStaleDeltasFromDBInclusive(table, staleTime) ==
  [k \in {id \in DOMAIN table : ~(table[id].lastUpdated <= staleTime)} |-> table[k]]

\* db.liveDeltas.where('lastUpdated').below(staleTime).delete()
pruneStaleDeltasFromDB(table, staleTime) ==
  [k \in {id \in DOMAIN table : ~(table[id].lastUpdated < staleTime)} |-> table[k]]

\* the branch of a stored Delta with a target train
replayOnto(acc, delta, id, newTrains) ==
  [trains |-> newTrains,
   trainKeyToId |-> MapSet(acc.trainKeyToId, delta.trainKey, id),
   selectedRunIds |-> pinSelectedRun(acc.selectedRunIds, id, findTrain(newTrains, id))]

\* the body of deltas.forEach in applyStoredLiveDeltas
replayDelta(acc, delta) ==
  LET target == Coalesce(MapGet(acc.trainKeyToId, delta.trainKey),
                         findMatchingTrainId(acc.trains, delta))
  IN IF Truthy(target)
     THEN replayOnto(acc, delta, target[1],
                     mergeIntoTarget(acc.trains, acc.selectedRunIds, delta, target[1]))
     ELSE acc

RECURSIVE replayDeltas(_, _)
replayDeltas(acc, deltas) ==
  IF deltas = <<>> THEN acc
  ELSE replayDeltas(replayDelta(acc, Head(deltas)), Tail(deltas))

applyStoredLiveDeltas(staticTrains, deltaTable, now) ==
  LET deltas == DeltasByLastUpdated(deltaTable)
      start == [trains |-> staticTrains, trainKeyToId |-> EmptyMap,
                selectedRunIds |-> EmptyMap]
  IN IF deltas = <<>> THEN staticTrains
     ELSE stripStaleLiveData(replayDeltas(start, deltas).trains, now)

\* the train collection loadTrainDataset returns
loadTrainDataset(trainTable, deltaTable, now) ==
  LET storedTrains == TrainsToArray(trainTable)
  IN IF storedTrains # <<>>
     THEN applyStoredLiveDeltas(storedTrains, deltaTable, now)
     ELSE StaticTrains

(***************************************************************************)
(* Bounds of the model                                                      *)
(***************************************************************************)
MaxBatch == 2        \* Deltas in one feed batch
MaxDeltas == 2       \* Deltas delivered by the feed per run of the model
MaxPruneCalls == 1   \* timer sweeps, beside the sweep at every mount
MaxRestarts == 1     \* page reloads
MaxSmallTicks == 2   \* clock steps of 1 ms within one long step
MaxBigTicks == 1     \* long clock steps
MaxChecks == 3       \* runs of the effect of Main that checks the persisted store
MaxSubscriptions == 3 \* connectLiveSocket calls
MaxFeedDeltas == 3   \* Deltas delivered one by one to a hydrated store
MaxCoreLen == 3      \* characters of a key before its suffix

\* the clock starts at StartTime and moves in steps of 1 ms and of LongTick,
\* so that a Run is met 1 ms short of the TTL, at the TTL and 1 ms past it
StartTime == 2 * STALE_LIVE_RUN_TTL_MS
LongTick == STALE_LIVE_RUN_TTL_MS - 1

(***************************************************************************)
(* State                                                                    *)
(*                                                                          *)
(* A handler that awaits the persisted store (applyDeltas, pruneStaleRuns)  *)
(* is one action: its set() reads the store only when the await has         *)
(* resolved, so the time of the call shows only in the arguments, and a     *)
(* rejected await ends the handler with nothing done.  The snapshot write   *)
(* that ends both handlers is not awaited: it lands, or it is lost (it      *)
(* rejects, or the page is left first).                                     *)
(***************************************************************************)
VARIABLES
  now,               \* Date.now()
  trains,            \* store: TrainWithRoute[]
  liveDeltas,        \* store: Map trainKey -> Delta
  trainKeyToId,      \* store: resolution cache, Map string -> TrainId
  selectedRunIds,    \* store: pin map, Map TrainId -> Run id
  unresolvedDeltas,  \* store: unresolved pool, Map Delta id -> Delta
  isDatasetHydrated, \* store
  connectionStatus,  \* store
  lastSocketEvent,   \* store
  lastError,         \* store
  dbTrains,          \* IndexedDB table trains, TrainId -> row
  dbDeltas,          \* IndexedDB table liveDeltas, id -> row
  dbLastUpdated,     \* IndexedDB table lastUpdated, name -> timestamp
  sweepDue,          \* the pruneStaleRuns() call of the mount effect is pending
  used,              \* how many calls and reloads of each bounded kind happened
  last,              \* history: the store operation that led to this state, if one did
  dbTracks,          \* IndexedDB table tracks, TrainId -> row
  trackRead,         \* what the last getCachedTrack call resolved to, with its argument
  stored,            \* history: per TrainId, the data of the last put that was stored
  dbStatus,          \* Main: the dbStatus state of the component
  hasCachedData,     \* Main: the hasCachedData state of the component
  effectsDue,        \* Main: runs of the [dbStatus] effect that are scheduled
  checks,            \* Main: where each started checkDatabase() call stands
  idb,               \* environment: IndexedDB is there ("yes", "no"), "unknown" until probed
  dbOpen,            \* the Dexie connection is open
  retries,           \* history: how many times db.open() was retried after a schema error
  singletonSocket,   \* socket.ts: the module-level connection, if any
  handlerRefs,       \* socket.ts: the module-level Set of handlers
  handles,           \* the cleanup closures connectLiveSocket has returned
  connections,       \* the connections created and not disconnected
  socketsMade,       \* how many connections io() has created
  listeners,         \* per connection, the subscription whose events its lifecycle listeners call
  probe,             \* the Delta findMatchingTrainId was last called with, if any
  resolved,          \* what that call returned
  pinned,            \* history: per train, the Run the last selectTrainRun call that found its Run selected
  rawPayload,        \* the payload parseSocketPayload was last called with, if any
  parsed,            \* what that call returned
  hintKey,           \* the key extractTrainNumberFromKey was last called with, if any
  hint,              \* what that call returned
  inflight,          \* the batches of the applyDeltas calls waiting at `await persistLiveDeltas`
  latest,            \* history: per Delta identity, the Delta handed to applyDeltas last
  dispatched         \* the last event of a connection and the callbacks and handlers it reached

vars == <<now, trains, liveDeltas, trainKeyToId, selectedRunIds, unresolvedDeltas,
          isDatasetHydrated, connectionStatus, lastSocketEvent, lastError,
          dbTrains, dbDeltas, dbLastUpdated, sweepDue, used, last,
          dbTracks, trackRead, stored,
          dbStatus, hasCachedData, effectsDue, checks, idb, dbOpen, retries,
          singletonSocket, handlerRefs, handles, connections, socketsMade, listeners,
          probe, resolved, pinned, rawPayload, parsed, hintKey, hint,
          inflight, latest, dispatched>>

storeVars == <<trains, liveDeltas, trainKeyToId, selectedRunIds, unresolvedDeltas>>
metaVars == <<isDatasetHydrated, connectionStatus, lastSocketEvent, lastError>>
dbVars == <<dbTrains, dbDeltas, dbLastUpdated>>
trackVars == <<dbTracks, trackRead, stored>>
bootVars == <<dbStatus, hasCachedData, effectsDue, checks, idb, dbOpen, retries>>
socketVars == <<singletonSocket, handlerRefs, handles, connections, socketsMade, listeners>>
parseVars == <<rawPayload, parsed>>
hintVars == <<hintKey, hint>>
asyncVars == <<inflight, latest>>
probeVars == <<probe, resolved, pinned, parseVars, hintVars, asyncVars, dispatched>>
shellVars == <<trackVars, bootVars, socketVars, probeVars>>

\* useDashboardData: liveCount is state.liveDeltas.size
liveCount == Cardinality(DOMAIN liveDeltas)

\* the slice of the store the reducers work on
StoreState ==
  [trains |-> trains, liveDeltas |-> liveDeltas, trainKeyToId |-> trainKeyToId,
   selectedRunIds |-> selectedRunIds, unresolvedDeltas |-> unresolvedDeltas]

\* every Run some train of the list holds, with the id of the train
RunsOf(trainList) ==
  UNION {{<<trainList[i].TrainId, trainList[i].liveRuns[k]>> :
            k \in 1..Len(trainList[i].liveRuns)} : i \in 1..Len(trainList)}

\* history record: the operation, its batch, whether it repeats the batch of
\* the operation right before it, and the Runs its sweep removed
Event(kind, batch) == [kind |-> kind, batch |-> batch, again |-> FALSE, dropped |-> {}]

\* canonical array index: a key Object.entries lists in ascending numeric order
\* before every other key (decimal digits, no leading zero)
IsArrayIndex(key) ==
  /\ key # <<>>
  /\ \A i \in 1..Len(key) : key[i] \in Digits
  /\ (Len(key) > 1 => key[1] # "0")

\* Object.entries order of two keys of one object: array indexes ascending,
\* then the other keys (in insertion order, which the feed decides)
EntriesBefore(a, b) ==
  IF IsArrayIndex(a) /\ IsArrayIndex(b) THEN DecimalValue(a) < DecimalValue(b)
  ELSE IsArrayIndex(a) /\ ~IsArrayIndex(b)

\* the order in which flattenSocketEnvelope emits two payloads of an envelope
FlattenBefore(a, b) ==
  \/ EntriesBefore(a.trainKey, b.trainKey)
  \/ a.trainKey = b.trainKey /\ EntriesBefore(a.variantKey, b.variantKey)

\* the envelopes the feed can deliver: payloads of distinct sources, in the
\* order flattenSocketEnvelope emits them
Envelopes ==
  LET picks == UNION {[1..k -> Sources] : k \in 1..MaxBatch}
  IN {p \in picks : \A i, j \in DOMAIN p : i < j => FlattenBefore(p[i], p[j])}

\* the batches the feed can deliver at time t: the payloads of one envelope,
\* each Delta stamped with the time of the report
Batches(t) == {[i \in DOMAIN p |-> MakeDelta(p[i], t)] : p \in Envelopes}

RunIds == {DeltaId(src.trainKey, src.variantKey) : src \in Sources}
TrainIds == {StaticTrains[i].TrainId : i \in 1..Len(StaticTrains)}

Init ==
  /\ now = StartTime
  /\ trains = <<>>
  /\ liveDeltas = EmptyMap
  /\ trainKeyToId = EmptyMap
  /\ selectedRunIds = EmptyMap
  /\ unresolvedDeltas = EmptyMap
  /\ isDatasetHydrated = FALSE
  /\ connectionStatus = "connecting"
  /\ lastSocketEvent = None
  /\ lastError = None
  /\ dbTrains = EmptyMap
  /\ dbDeltas = EmptyMap
  /\ dbLastUpdated = EmptyMap
  /\ sweepDue = TRUE
  /\ used = [deltas |-> 0, prune |-> 0, restart |-> 0]
  /\ last = Event("init", <<>>)
  /\ dbTracks = EmptyMap
  /\ trackRead = None
  /\ stored = EmptyMap
  /\ dbStatus = "checking"
  /\ hasCachedData = FALSE
  /\ effectsDue = 1
  /\ checks = <<>>
  /\ idb = "unknown"
  /\ dbOpen = FALSE
  /\ retries = 0
  /\ singletonSocket = None
  /\ handlerRefs = {}
  /\ handles = <<>>
  /\ connections = {}
  /\ socketsMade = 0
  /\ listeners = EmptyMap
  /\ probe = None
  /\ resolved = None
  /\ pinned = EmptyMap
  /\ rawPayload = None
  /\ parsed = None
  /\ hintKey = None
  /\ hint = None
  /\ inflight = <<>>
  /\ latest = EmptyMap
  /\ dispatched = None

(***************************************************************************)
(* Actions                                                                  *)
(***************************************************************************)
\* time passes: by 1 ms, or by LongTick
Tick(d) ==
  /\ \/ d = 1 /\ (now - StartTime) % LongTick < MaxSmallTicks
     \/ d = LongTick /\ (now - StartTime) \div LongTick < MaxBigTicks
  /\ now' = now + d
  /\ last' = Event("other", <<>>)
  /\ UNCHANGED <<storeVars, metaVars, dbVars, sweepDue, used, shellVars>>

\* the set() of applyDeltas: processDeltas, then pruneStaleData at Date.now()
applyDeltasSet(st, batch, t) == pruneStaleData(processDeltas(st, batch), t)

\* persistTrainSnapshot(trains): the rows written are normalized first
persistTrainSnapshot(table, trainList, t) ==
  BulkPutTrains(table, stripStaleLiveData(trainList, t))

\* db.lastUpdated.put({ name: 'dataset', timestamp: Date.now() }), the write
\* that ends persistDataset and persistTrainSnapshot
markDatasetUpdated(table, t) == MapSet(table, "dataset", t)

\* applyDeltas(batch) from the moment the bulkPut of the batch resolves: the
\* set() runs, and the snapshot of get().trains is written (snapshotLands)
\* or lost
applyDeltasResumed(batch, snapshotLands) ==
  /\ \E merged \in {processDeltas(StoreState, batch)} :
     \E next \in {pruneStaleData(merged, now)} :
        /\ dbDeltas' = persistLiveDeltas(dbDeltas, batch)
        /\ trains' = next.trains
        /\ liveDeltas' = next.liveDeltas
        /\ trainKeyToId' = next.trainKeyToId
        /\ selectedRunIds' = next.selectedRunIds
        /\ unresolvedDeltas' = next.unresolvedDeltas
        /\ lastSocketEvent' = Some(now)
        /\ connectionStatus' = "connected"
        /\ lastError' = IF connectionStatus # "connected" THEN None ELSE lastError
        /\ dbTrains' = IF snapshotLands
                       THEN persistTrainSnapshot(dbTrains, next.trains, now)
                       ELSE dbTrains
        /\ dbLastUpdated' = IF snapshotLands
                            THEN markDatasetUpdated(dbLastUpdated, now)
                            ELSE dbLastUpdated
        /\ last' = [kind |-> "apply", batch |-> batch,
                    again |-> last.kind = "apply" /\ last.batch = batch,
                    dropped |-> RunsOf(merged.trains) \ RunsOf(next.trains)]
  /\ used' = [used EXCEPT !.deltas = @ + Len(batch)]
  /\ UNCHANGED <<now, isDatasetHydrated, sweepDue>>

\* applyDeltas(batch) with nothing running between the call and the set()
applyDeltas(batch, snapshotLands) ==
  /\ applyDeltasResumed(batch, snapshotLands)
  /\ UNCHANGED shellVars

\* the feed delivers a batch, one of the MaxDeltas Deltas of the run
ApplyDeltas(batch, snapshotLands) ==
  /\ used.deltas + Len(batch) <= MaxDeltas
  /\ applyDeltas(batch, snapshotLands)

\* applyDeltas(batch) when the bulkPut rejects: the handler ends at its await
ApplyDeltasPersistFailed(batch) ==
  /\ used.deltas + Len(batch) <= MaxDeltas
  /\ used' = [used EXCEPT !.deltas = @ + Len(batch)]
  /\ last' = Event("applyFailed", batch)
  /\ UNCHANGED <<now, storeVars, metaVars, dbVars, sweepDue, shellVars>>

\* a pruneStaleRuns() call can complete: the one of the mount effect, or one
\* of the interval timer
SweepEnabled == sweepDue \/ used.prune < MaxPruneCalls

SweepCounted ==
  /\ sweepDue' = FALSE
  /\ used' = IF sweepDue THEN used ELSE [used EXCEPT !.prune = @ + 1]

\* pruneStaleRuns(): the delete of the stale rows resolves, the set() runs,
\* and the snapshot is written (snapshotLands) or lost
PruneStaleRuns(snapshotLands) ==
  /\ SweepEnabled
  /\ SweepCounted
  /\ \E next \in {pruneStaleData(StoreState, now)} :
        /\ dbDeltas' = pruneStaleDeltasFromDB(dbDeltas, now - STALE_LIVE_RUN_TTL_MS)
        /\ trains' = next.trains
        /\ liveDeltas' = next.liveDeltas
        /\ selectedRunIds' = next.selectedRunIds
        /\ dbTrains' = IF snapshotLands
                       THEN persistTrainSnapshot(dbTrains, next.trains, now)
                       ELSE dbTrains
        /\ dbLastUpdated' = IF snapshotLands
                            THEN markDatasetUpdated(dbLastUpdated, now)
                            ELSE dbLastUpdated
        /\ last' = [Event("prune", <<>>) EXCEPT
                      !.dropped = RunsOf(trains) \ RunsOf(next.trains)]
  /\ UNCHANGED <<now, trainKeyToId, unresolvedDeltas, metaVars, shellVars>>

\* pruneStaleRuns() when the delete rejects: the handler ends at its await
PruneStaleRunsDeleteFailed ==
  /\ SweepEnabled
  /\ SweepCounted
  /\ last' = Event("pruneFailed", <<>>)
  /\ UNCHANGED <<now, storeVars, metaVars, dbVars, shellVars>>

\* the set() of selectTrainRun
selectTrainRun(trainId, runId) ==
  LET next == [i \in 1..Len(trains) |->
                 IF trains[i].TrainId = trainId
                 THEN applyRunSelectionToTrain(trains[i], runId)
                 ELSE trains[i]]
      targetTrain == findTrain(next, trainId)
  IN /\ trains' = next
     /\ selectedRunIds' =
          IF targetTrain # None /\ targetTrain[1].selectedRunId # None
          THEN MapSet(selectedRunIds, trainId, targetTrain[1].selectedRunId)
          ELSE selectedRunIds

SelectTrainRun(trainId, runId) ==
  /\ selectTrainRun(trainId, runId)
  /\ last' = Event("select", <<>>)
  /\ UNCHANGED <<now, liveDeltas, trainKeyToId, unresolvedDeltas, metaVars, dbVars,
                 sweepDue, used, shellVars>>

\* history record of a run selection, with its arguments
Picked(trainId, runId) ==
  [kind |-> "pick", batch |-> <<>>, again |-> FALSE, dropped |-> {},
   trainId |-> trainId, runId |-> runId]

\* onSelectRun(trainId, runId), the button of a Run in the details of a
\* train (of a render that may be out of date): selectTrainRun is called
OnSelectRun(trainId, runId) ==
  /\ selectTrainRun(trainId, runId)
  /\ last' = Picked(trainId, runId)
  /\ pinned' = IF \E p \in RunsOf(trains) : p[1] = trainId /\ p[2].id = runId
               THEN MapSet(pinned, trainId, runId)
               ELSE pinned
  /\ UNCHANGED <<now, liveDeltas, trainKeyToId, unresolvedDeltas, metaVars, dbVars,
                 sweepDue, used, trackVars, bootVars, socketVars, probe, resolved,
                 parseVars, hintVars, asyncVars, dispatched>>

\* useDatasetBootstrap: loadTrainDataset() resolves and setDataset publishes
\* it; with no stored trains the static dataset is built and persisted
DatasetLoaded ==
  /\ ~isDatasetHydrated
  /\ trains' = loadTrainDataset(dbTrains, dbDeltas, now)
  /\ isDatasetHydrated' = TRUE
  /\ dbTrains' = IF DOMAIN dbTrains = {} THEN BulkPutTrains(EmptyMap, StaticTrains)
                 ELSE dbTrains
  /\ dbLastUpdated' = IF DOMAIN dbTrains = {}
                      THEN markDatasetUpdated(dbLastUpdated, now)
                      ELSE dbLastUpdated
  /\ last' = Event("load", <<>>)
  /\ UNCHANGED <<now, liveDeltas, trainKeyToId, selectedRunIds, unresolvedDeltas,
                 connectionStatus, lastSocketEvent, lastError, dbDeltas, sweepDue, used,
                 shellVars>>

\* the page is reloaded: the store is gone, the persisted tables stay, and
\* the mount effects run again
Restart ==
  /\ used.restart < MaxRestarts
  /\ trains' = <<>>
  /\ liveDeltas' = EmptyMap
  /\ trainKeyToId' = EmptyMap
  /\ selectedRunIds' = EmptyMap
  /\ unresolvedDeltas' = EmptyMap
  /\ isDatasetHydrated' = FALSE
  /\ connectionStatus' = "connecting"
  /\ lastSocketEvent' = None
  /\ lastError' = None
  /\ sweepDue' = TRUE
  /\ used' = [used EXCEPT !.restart = @ + 1]
  /\ last' = Event("other", <<>>)
  /\ trackRead' = None
  /\ dbStatus' = "checking"
  /\ hasCachedData' = FALSE
  /\ effectsDue' = 1
  /\ checks' = <<>>
  /\ dbOpen' = FALSE
  /\ retries' = 0
  /\ singletonSocket' = None
  /\ handlerRefs' = {}
  /\ handles' = <<>>
  /\ connections' = {}
  /\ listeners' = EmptyMap
  /\ UNCHANGED <<now, dbVars, dbTracks, stored, idb, socketsMade, probeVars>>

\* one page session: the store, the feed, the sweeps and the bootstrap
Next ==
  \/ \E d \in {1, LongTick} : Tick(d)
  \/ \E batch \in Batches(now), snapshotLands \in BOOLEAN : ApplyDeltas(batch, snapshotLands)
  \/ \E batch \in Batches(now) : ApplyDeltasPersistFailed(batch)
  \/ \E snapshotLands \in BOOLEAN : PruneStaleRuns(snapshotLands)
  \/ PruneStaleRunsDeleteFailed
  \/ \E trainId \in TrainIds, runId \in RunIds : SelectTrainRun(trainId, runId)
  \/ DatasetLoaded

Spec == Init /\ [][Next]_vars

\* the persisted store across page sessions: what is written, and what a cold
\* start makes of it
NextCold ==
  \/ \E d \in {1, LongTick} : Tick(d)
  \/ \E batch \in Batches(now), snapshotLands \in BOOLEAN : ApplyDeltas(batch, snapshotLands)
  \/ \E snapshotLands \in BOOLEAN : PruneStaleRuns(snapshotLands)
  \/ DatasetLoaded
  \/ Restart

SpecCold == Init /\ [][NextCold]_vars

\* the source of SrcD a moment earlier: between two stations, no locomotive
\* reported
SrcE == Source(<<"x">>, <<"1">>, "", Some(18), Some(17), <<>>, "up")

FeedSources == Sources \cup {SrcE}

\* the feed delivers an envelope of one payload, one of a longer run
FeedDelta(src, snapshotLands) ==
  /\ used.deltas < MaxFeedDeltas
  /\ applyDeltas(<<MakeDelta(src, now)>>, snapshotLands)

\* a longer run of the feed within the TTL: Deltas one by one, the clock in
\* steps of 1 ms, and the run selections of the user
NextFeed ==
  \/ Tick(1)
  \/ \E src \in FeedSources, snapshotLands \in BOOLEAN : FeedDelta(src, snapshotLands)
  \/ \E trainId \in TrainIds, runId \in RunIds : SelectTrainRun(trainId, runId)
  \/ DatasetLoaded

SpecFeed == Init /\ [][NextFeed]_vars

\* the ids the buttons of the details panel carry here: that of the train
\* the sources of the feed meet on, and one of no train
PickTrainIds == {5, 8}

\* the same run of the feed with the run selections seen from the panel; the
\* snapshot writes land (nothing of the session reads them)
NextPick ==
  \/ Tick(1)
  \/ \E src \in FeedSources : FeedDelta(src, TRUE)
  \/ \E trainId \in PickTrainIds, runId \in RunIds : OnSelectRun(trainId, runId)
  \/ DatasetLoaded

SpecPick == Init /\ [][NextPick]_vars

(***************************************************************************)
(* Connection lifecycle (main.tsx, useLiveSocket)                           *)
(***************************************************************************)
\* the state of the store the set() callbacks receive
FullStore ==
  [trains |-> trains, liveDeltas |-> liveDeltas, trainKeyToId |-> trainKeyToId,
   selectedRunIds |-> selectedRunIds, unresolvedDeltas |-> unresolvedDeltas,
   isDatasetHydrated |-> isDatasetHydrated, connectionStatus |-> connectionStatus,
   lastSocketEvent |-> lastSocketEvent, lastError |-> lastError]

\* setConnectionStatus that also forgets the live state on a disconnect
setConnectionStatusForgetting(st, status) ==
  [st EXCEPT !.connectionStatus = status,
             !.lastError = IF status = "connected" THEN None ELSE @,
             !.liveDeltas = IF status = "disconnected" THEN EmptyMap ELSE @,
             !.unresolvedDeltas = IF status = "disconnected" THEN EmptyMap ELSE @,
             !.trainKeyToId = IF status = "disconnected" THEN EmptyMap ELSE @]

setConnectionStatus(st, status) ==
  [st EXCEPT !.connectionStatus = status,
             !.lastError = IF status = "connected" THEN None ELSE @]

setLastError(st, message) == [st EXCEPT !.lastError = message]

\* the messages of the errors the transport reports
ErrorMessages == {"timeout", "xhr poll error"}

\* the store after the set() calls of one socket event handler
Lifecycle(next) ==
  /\ trains' = next.trains
  /\ liveDeltas' = next.liveDeltas
  /\ trainKeyToId' = next.trainKeyToId
  /\ selectedRunIds' = next.selectedRunIds
  /\ unresolvedDeltas' = next.unresolvedDeltas
  /\ isDatasetHydrated' = next.isDatasetHydrated
  /\ connectionStatus' = next.connectionStatus
  /\ lastSocketEvent' = next.lastSocketEvent
  /\ lastError' = next.lastError
  /\ last' = Event("connection", <<>>)
  /\ UNCHANGED <<now, dbVars, sweepDue, used, shellVars>>

OnConnect ==
  Lifecycle(setLastError(setConnectionStatus(FullStore, "connected"), None))

\* onDisconnect, and the cleanup of the effect when the component unmounts
OnDisconnect == Lifecycle(setConnectionStatus(FullStore, "disconnected"))

OnReconnectAttempt == Lifecycle(setConnectionStatus(FullStore, "reconnecting"))

OnReconnect ==
  Lifecycle(setLastError(setConnectionStatus(FullStore, "connected"), None))

OnError(message) ==
  Lifecycle(setConnectionStatus(setLastError(FullStore, Some(message)), "error"))

\* the store under the feed and the events of its connection
NextConn ==
  \/ OnConnect
  \/ OnDisconnect
  \/ OnReconnectAttempt
  \/ OnReconnect
  \/ \E message \in ErrorMessages : OnError(message)
  \/ \E batch \in Batches(now), snapshotLands \in BOOLEAN : ApplyDeltas(batch, snapshotLands)
  \/ DatasetLoaded

SpecConn == Init /\ [][NextConn]_vars

(***************************************************************************)
(* Start-up of the page (Main): the effect that checks the persisted store  *)
(*                                                                          *)
(* The effect depends on dbStatus: it runs at mount and again after every   *)
(* render in which dbStatus has a new value.  It has no cleanup, so the     *)
(* checkDatabase() calls of earlier runs go on.  A setDbStatus with the     *)
(* value dbStatus already has causes no render.  The rest of the effect     *)
(* (service-worker probe, socket probe, loading timer) reads the result of  *)
(* the check and does not touch dbStatus.                                   *)
(***************************************************************************)
ONE_HOUR == 60 * 60 * 1000

\* AppDB.hasRecentData; checkDatabase makes the same test inline
hasRecentData(table, t, maxAgeMs) ==
  /\ "trains" \in DOMAIN table
  /\ t - table["trains"] < maxAgeMs

\* how db.open() can end: it opens, it fails with a schema or version error,
\* or it fails otherwise
OpenOutcomes == {"ok", "schema", "other"}

\* setDbStatus(status) schedules the effect again when the status is new
Rerun(status) == IF status # dbStatus THEN 1 ELSE 0

\* one run of the effect: checkDatabase() starts and runs up to its first
\* timer: without IndexedDB it ends at "unavailable", else it shows "checking"
EffectRun(available) ==
  /\ effectsDue > 0
  /\ Len(checks) < MaxChecks
  /\ idb \in {"unknown", IF available THEN "yes" ELSE "no"}
  /\ idb' = IF available THEN "yes" ELSE "no"
  /\ \E status \in {IF available THEN "checking" ELSE "unavailable"} :
       /\ dbStatus' = status
       /\ effectsDue' = effectsDue - 1 + Rerun(status)
  /\ checks' = Append(checks, IF available THEN "checking" ELSE "done")
  /\ last' = Event("boot", <<>>)
  /\ UNCHANGED <<now, storeVars, metaVars, dbVars, sweepDue, used, probeVars, trackVars,
                 hasCachedData, dbOpen, retries, socketVars>>

\* checkDatabase() i after its "checking" timer: db.open() and the reads of
\* the tables (the trains table has rows exactly when the stations table has:
\* persistDataset writes both)
CheckOpen(i, outcome) ==
  /\ i \in 1..Len(checks)
  /\ checks[i] = "checking"
  /\ dbOpen => outcome = "ok"
  /\ dbOpen' = (dbOpen \/ outcome = "ok")
  /\ hasCachedData' = IF outcome = "ok" /\ DOMAIN dbTrains # {}
                      THEN hasRecentData(dbLastUpdated, now, ONE_HOUR)
                      ELSE hasCachedData
  /\ \E status \in {CASE outcome = "ok" -> "available"
                      [] outcome = "schema" -> "migrating"
                      [] OTHER -> "unavailable"} :
       /\ dbStatus' = status
       /\ effectsDue' = effectsDue + Rerun(status)
  /\ checks' = [checks EXCEPT ![i] = IF outcome = "schema" THEN "migrating" ELSE "done"]
  /\ last' = Event("boot", <<>>)
  /\ UNCHANGED <<now, storeVars, metaVars, dbVars, sweepDue, used, probeVars, trackVars,
                 idb, retries, socketVars>>

\* checkDatabase() i after its "migrating" timer: db.open() once more
CheckRetry(i, opened) ==
  /\ i \in 1..Len(checks)
  /\ checks[i] = "migrating"
  /\ dbOpen => opened
  /\ dbOpen' = (dbOpen \/ opened)
  /\ retries' = retries + 1
  /\ \E status \in {IF opened THEN "available" ELSE "unavailable"} :
       /\ dbStatus' = status
       /\ effectsDue' = effectsDue + Rerun(status)
  /\ checks' = [checks EXCEPT ![i] = "done"]
  /\ last' = Event("boot", <<>>)
  /\ UNCHANGED <<now, storeVars, metaVars, dbVars, sweepDue, used, probeVars, trackVars,
                 hasCachedData, idb, socketVars>>

NextBoot ==
  \/ \E available \in BOOLEAN : EffectRun(available)
  \/ \E i \in 1..MaxChecks, outcome \in OpenOutcomes : CheckOpen(i, outcome)
  \/ \E i \in 1..MaxChecks, opened \in BOOLEAN : CheckRetry(i, opened)

SpecBoot == Init /\ [][NextBoot]_vars

(***************************************************************************)
(* Shared feed connection (socket.ts)                                       *)
(***************************************************************************)
\* the functions callers subscribe with: the applyDeltas of the store (one
\* function for the life of the page) and closures made for one probe each
Handlers == {"applyDeltas", "probeA", "probeB"}

\* the module state of socket.ts
SocketModule == [singletonSocket |-> singletonSocket, handlerRefs |-> handlerRefs]

\* the module state after connectLiveSocket(handler); fresh is the
\* connection io() makes when there is none
connectLiveSocket(mod, handler, fresh) ==
  [singletonSocket |-> IF mod.singletonSocket = None THEN Some(fresh)
                       ELSE mod.singletonSocket,
   handlerRefs |-> mod.handlerRefs \cup {handler}]

\* the module state after the cleanup function connectLiveSocket(handler)
\* returned
cleanup(mod, handler) ==
  [singletonSocket |-> IF mod.handlerRefs \ {handler} = {} THEN None
                       ELSE mod.singletonSocket,
   handlerRefs |-> mod.handlerRefs \ {handler}]

ConnectLiveSocket(handler) ==
  /\ Len(handles) < MaxSubscriptions
  /\ \E next \in {connectLiveSocket(SocketModule, handler, socketsMade + 1)} :
       /\ singletonSocket' = next.singletonSocket
       /\ handlerRefs' = next.handlerRefs
  /\ socketsMade' = IF singletonSocket = None THEN socketsMade + 1 ELSE socketsMade
  /\ connections' = IF singletonSocket = None THEN connections \cup {socketsMade + 1}
                    ELSE connections
  /\ listeners' = IF singletonSocket = None
                  THEN MapSet(listeners, socketsMade + 1, Len(handles) + 1)
                  ELSE listeners
  /\ handles' = Append(handles, [handler |-> handler, registered |-> TRUE])
  /\ last' = Event("socket", <<>>)
  /\ UNCHANGED <<now, storeVars, metaVars, dbVars, sweepDue, used, probeVars, trackVars, bootVars>>

\* the caller of subscription h calls the cleanup function it was given
Cleanup(h) ==
  /\ h \in 1..Len(handles)
  /\ \E next \in {cleanup(SocketModule, handles[h].handler)} :
       /\ singletonSocket' = next.singletonSocket
       /\ handlerRefs' = next.handlerRefs
       /\ connections' = IF next.singletonSocket = None /\ singletonSocket # None
                         THEN connections \ {singletonSocket[1]}
                         ELSE connections
  /\ handles' = [handles EXCEPT ![h].registered = FALSE]
  /\ last' = Event("socket", <<>>)
  /\ UNCHANGED <<now, storeVars, metaVars, dbVars, sweepDue, used, probeVars, trackVars, bootVars,
                 socketsMade, listeners>>

NextSocket ==
  \/ \E handler \in Handlers : ConnectLiveSocket(handler)
  \/ \E h \in 1..MaxSubscriptions : Cleanup(h)

SpecSocket == Init /\ [][NextSocket]_vars

\* the events of a connection that connectLiveSocket listens to
LifecycleEvents ==
  {"connect", "disconnect", "connect_error", "error", "reconnect_attempt", "reconnect"}

\* the member of SocketEvents the listener of the event calls
CallbackOf(event) ==
  CASE event = "connect" -> "onConnect"
    [] event = "disconnect" -> "onDisconnect"
    [] event = "connect_error" -> "onError"
    [] event = "error" -> "onError"
    [] event = "reconnect_attempt" -> "onReconnectAttempt"
    [] event = "reconnect" -> "onReconnect"

\* the callbacks a caller passes with its handler: useLiveSocket all five,
\* checkSocketConnectivity onConnect and onError
EventsOf(handler) ==
  IF handler = "applyDeltas"
  THEN {"onConnect", "onDisconnect", "onReconnectAttempt", "onReconnect", "onError"}
  ELSE {"onConnect", "onError"}

\* what one event of a connection reached: the subscriptions whose callback
\* ran, the handler functions that were called
Dispatch(connection, event, empty, callbacks, handlers) ==
  [connection |-> connection, event |-> event, empty |-> empty,
   callbacks |-> callbacks, handlers |-> handlers]

\* an open connection emits a lifecycle event: the listener registered when
\* the connection was made runs, `events?.onX ?? (() => {})` of that call
ConnectionEvent(c, event) ==
  /\ c \in connections
  /\ dispatched' =
       Some(Dispatch(c, event, FALSE,
                     IF CallbackOf(event) \in EventsOf(handles[listeners[c]].handler)
                     THEN {listeners[c]} ELSE {},
                     {}))
  /\ last' = Event("event", <<>>)
  /\ UNCHANGED <<now, storeVars, metaVars, dbVars, sweepDue, used, trackVars, bootVars,
                 socketVars, probe, resolved, pinned, parseVars, hintVars, asyncVars>>

\* handleEnvelope: an open connection receives an envelope; when it flattens
\* to at least one Delta every function of handlerRefs is called with them
HandleEnvelope(c, empty) ==
  /\ c \in connections
  /\ dispatched' = Some(Dispatch(c, "data", empty, {}, IF empty THEN {} ELSE handlerRefs))
  /\ last' = Event("data", <<>>)
  /\ UNCHANGED <<now, storeVars, metaVars, dbVars, sweepDue, used, trackVars, bootVars,
                 socketVars, probe, resolved, pinned, parseVars, hintVars, asyncVars>>

NextEvents ==
  \/ \E handler \in Handlers : ConnectLiveSocket(handler)
  \/ \E h \in 1..MaxSubscriptions : Cleanup(h)
  \/ \E c \in 1..MaxSubscriptions, event \in LifecycleEvents : ConnectionEvent(c, event)
  \/ \E c \in 1..MaxSubscriptions, empty \in BOOLEAN : HandleEnvelope(c, empty)

SpecEvents == Init /\ [][NextEvents]_vars

(***************************************************************************)
(* Track cache (trackCache.ts, table tracks keyed by TrainId)               *)
(***************************************************************************)
TrackStation(stationId, name) == [StationId |-> stationId, StationName |-> name]

\* the track data callers pass in: the TrainId in the data need not be the
\* id it is cached under
TrackInputs ==
  {[TrainId |-> id, stations |-> stations] :
     id \in TrainIds,
     stations \in {<<TrackStation(1, "Alpha")>>,
                   <<TrackStation(1, "Alpha"), TrackStation(2, "Beta")>>}}

\* db.tracks.put(row): the key of the row is its TrainId
TracksPut(table, row) == MapSet(table, row.TrainId, row)

\* setCachedTrack putting the data as it was given
setCachedTrackAsGiven(table, trainId, data) == TracksPut(table, data)

setCachedTrack(table, trainId, data) ==
  TracksPut(table, [data EXCEPT !.TrainId = trainId])

getCachedTrack(table, trainId) == MapGet(table, trainId)

\* setCachedTrack(trainId, data): the put resolves, or it rejects and the
\* error is logged
SetCachedTrack(trainId, data, putResolves) ==
  /\ dbTracks' = IF putResolves THEN setCachedTrack(dbTracks, trainId, data) ELSE dbTracks
  /\ stored' = IF putResolves THEN MapSet(stored, trainId, data) ELSE stored
  /\ last' = Event("trackSet", <<>>)
  /\ UNCHANGED <<now, storeVars, metaVars, dbVars, sweepDue, used, probeVars, trackRead, bootVars,
                 socketVars>>

\* the call without the try/catch: a rejected get rejects the call
getCachedTrackCallUncaught(table, trainId, getResolves) ==
  [threw |-> ~getResolves,
   result |-> IF getResolves THEN getCachedTrack(table, trainId) ELSE None]

\* how a getCachedTrack(trainId) call ends: with the row, or, the rejection of
\* the get caught, with undefined
getCachedTrackCall(table, trainId, getResolves) ==
  [threw |-> FALSE,
   result |-> IF getResolves THEN getCachedTrack(table, trainId) ELSE None]

\* the ids the cache is read under: those of the trains, and one of no train
MissingTrainId == 999999
TrackKeys == TrainIds \cup {MissingTrainId}

\* getCachedTrack(trainId): the get resolves, or it rejects and undefined is
\* returned
GetCachedTrack(trainId, getResolves) ==
  /\ \E call \in {getCachedTrackCall(dbTracks, trainId, getResolves)} :
       trackRead' = Some([trainId |-> trainId, resolved |-> getResolves,
                          threw |-> call.threw, result |-> call.result])
  /\ last' = Event("trackGet", <<>>)
  /\ UNCHANGED <<now, storeVars, metaVars, dbVars, sweepDue, used, probeVars, dbTracks, stored,
                 bootVars, socketVars>>

NextTracks ==
  \/ \E trainId \in TrainIds, data \in TrackInputs, putResolves \in BOOLEAN :
       SetCachedTrack(trainId, data, putResolves)
  \/ \E trainId \in TrackKeys, getResolves \in BOOLEAN : GetCachedTrack(trainId, getResolves)

SpecTracks == Init /\ [][NextTracks]_vars

(***************************************************************************)
(* Calls of the resolver                                                    *)
(***************************************************************************)
\* the Deltas the resolver is called with: train keys with a number of one
\* train (123), of two trains (456), of no train (789) and with no number at
\* all; every mix of the evidence the scoring steps weigh
ResolverInputs ==
  {MakeDelta(Source(trainKey, <<"1", "a">>, loco, next, prev, nextStop, direction), StartTime) :
     trainKey \in {<<"1", "2", "3">>, <<"4", "5", "6">>, <<"7", "8", "9">>, <<"x">>},
     loco \in {"", "L9"},
     next \in {None, Some(17), Some(19)},
     prev \in {None, Some(17), Some(19)},
     nextStop \in {<<>>, <<"a">>, <<"C">>},
     direction \in {"unknown", "up", "down"}}

\* findMatchingTrainId(trains, delta) is called on the trains of the store
Resolve(delta) ==
  /\ probe' = Some(delta)
  /\ resolved' = findMatchingTrainId(trains, delta)
  /\ last' = Event("resolve", <<>>)
  /\ UNCHANGED <<now, storeVars, metaVars, dbVars, sweepDue, used, trackVars, bootVars,
                 socketVars, pinned, parseVars, hintVars, asyncVars, dispatched>>

NextResolve ==
  \/ DatasetLoaded
  \/ \E delta \in ResolverInputs : Resolve(delta)

SpecResolve == Init /\ [][NextResolve]_vars

(***************************************************************************)
(* Calls of the parser                                                      *)
(***************************************************************************)
\* A JavaScript value of the numeric fields: null, a finite number or NaN.
JsNull == [kind |-> "null", value |-> 0]
JsNaN == [kind |-> "NaN", value |-> 0]
JsNum(n) == [kind |-> "number", value |-> n]

\* Number.isFinite: false for null and for NaN
IsFiniteNumber(v) == v.kind = "number"

\* Number(x) for an optional text: undefined is NaN, "" is 0, a string of
\* decimal digits is its value, any other text of the model is NaN.
JsNumber(field) ==
  IF field = None THEN JsNaN
  ELSE IF \A i \in 1..Len(field[1]) : field[1][i] \in Digits
       THEN JsNum(DecimalValue(field[1]))
       ELSE JsNaN

\* the condition of `x ? a : b` for an optional text: undefined and "" are falsy
TruthyText(field) == field # None /\ field[1] # <<>>

\* parseSocketPayload, its position test and its numeric fields: null (None)
\* for a position that is not finite; only speed is passed through
\* Number.isFinite.
parseSocketPayload(payload) ==
  LET lat == JsNumber(payload.lat)
      lon == JsNumber(payload.lon)
      speed == IF TruthyText(payload.sp) THEN JsNumber(payload.sp) ELSE JsNull
  IN IF ~IsFiniteNumber(lat) \/ ~IsFiniteNumber(lon) THEN None
     ELSE Some([lat |-> lat,
                lon |-> lon,
                lateBy |-> IF TruthyText(payload.late_by)
                           THEN JsNumber(payload.late_by) ELSE JsNull,
                nextStationId |-> IF TruthyText(payload.next_station)
                                  THEN JsNumber(payload.next_station) ELSE JsNull,
                prevStationId |-> IF TruthyText(payload.prev_station)
                                  THEN JsNumber(payload.prev_station) ELSE JsNull,
                speed |-> IF IsFiniteNumber(speed) THEN speed ELSE JsNull])

\* The texts a field of a payload is drawn from: absent, empty, two numbers
\* and a text that is no number.
FieldTexts ==
  {None, Some(<<>>), Some(<<"1", "7">>), Some(<<"0">>), Some(<<"N", "/", "A">>)}
StationTexts == {None, Some(<<"1", "7">>), Some(<<"N", "/", "A">>)}

RawPayloads ==
  [lat : {None, Some(<<"3", "1">>)},
   lon : {Some(<<"7", "4">>), Some(<<"a">>)},
   sp : FieldTexts,
   late_by : FieldTexts,
   next_station : StationTexts,
   prev_station : StationTexts]

\* one call parseSocketPayload(trainKey, variantKey, payload)
ParseSocketPayload(payload) ==
  /\ rawPayload' = Some(payload)
  /\ parsed' = parseSocketPayload(payload)
  /\ last' = Event("parse", <<>>)
  /\ UNCHANGED <<now, storeVars, metaVars, dbVars, sweepDue, used, trackVars, bootVars,
                 socketVars, probe, resolved, pinned, hintVars, asyncVars, dispatched>>

NextParse == \E payload \in RawPayloads : ParseSocketPayload(payload)

SpecParse == Init /\ [][NextParse]_vars

(***************************************************************************)
(* Calls of the train-number hint                                           *)
(***************************************************************************)
\* every string of at most n characters of the alphabet
RECURSIVE StringsUpTo(_, _)
StringsUpTo(alphabet, n) ==
  IF n = 0 THEN {<<>>}
  ELSE LET shorter == StringsUpTo(alphabet, n - 1)
       IN shorter \cup {Append(w, c) : w \in shorter, c \in alphabet}

\* The keys of the feed the hint is taken from: a short text, bare or padded
\* with one of the two suffixes (the empty key is the absent key).
HintKeys ==
  {core \o suffix : core \in StringsUpTo({"0", "1", "9", "a"}, MaxCoreLen),
                    suffix \in {<<>>, Suffix9900, Suffix099900}} \ {<<>>}

\* parseSocketPayload: one call extractTrainNumberFromKey(key)
ExtractTrainNumber(key) ==
  /\ hintKey' = Some(key)
  /\ hint' = extractTrainNumberFromKey(key)
  /\ last' = Event("hint", <<>>)
  /\ UNCHANGED <<now, storeVars, metaVars, dbVars, sweepDue, used, trackVars, bootVars,
                 socketVars, probe, resolved, pinned, parseVars, asyncVars, dispatched>>

NextHint == \E key \in HintKeys : ExtractTrainNumber(key)

SpecHint == Init /\ [][NextHint]_vars

(***************************************************************************)
(* applyDeltas calls in flight                                              *)
(***************************************************************************)
\* the sequence without its k-th element
RemoveAt(seq, k) == SubSeq(seq, 1, k - 1) \o SubSeq(seq, k + 1, Len(seq))

\* handleEnvelope hands an envelope of one payload to applyDeltas, which
\* starts the bulkPut of the batch and waits for it
ApplyDeltasCalled(src) ==
  /\ used.deltas + Len(inflight) < MaxFeedDeltas
  /\ inflight' = Append(inflight, <<MakeDelta(src, now)>>)
  /\ latest' = MapSet(latest, DeltaId(src.trainKey, src.variantKey), MakeDelta(src, now))
  /\ last' = Event("call", <<>>)
  /\ UNCHANGED <<now, storeVars, metaVars, dbVars, sweepDue, used, trackVars, bootVars,
                 socketVars, probe, resolved, pinned, parseVars, hintVars, dispatched>>

\* the bulkPut of the k-th waiting call resolves and the call goes on; the
\* code does nothing to resume the calls in the order they were made
PersistLiveDeltasResolved(k) ==
  /\ k \in 1..Len(inflight)
  /\ applyDeltasResumed(inflight[k], TRUE)
  /\ inflight' = RemoveAt(inflight, k)
  /\ UNCHANGED <<latest, trackVars, bootVars, socketVars, probe, resolved, pinned,
                 parseVars, hintVars, dispatched>>

NextAsync ==
  \/ Tick(1)
  \/ \E src \in FeedSources : ApplyDeltasCalled(src)
  \/ \E k \in 1..MaxFeedDeltas : PersistLiveDeltasResolved(k)
  \/ DatasetLoaded

SpecAsync == Init /\ [][NextAsync]_vars

(***************************************************************************)
(* Properties                                                               *)
(***************************************************************************)
\* the state a sweep has just produced: pruneStaleRuns, or the sweep that
\* ends applyDeltas
Swept == last.kind \in {"prune", "apply"}

\* train i holds no Run, and the last operation removed a Run of it
LostLastRun(i) ==
  /\ trains[i].liveRuns = <<>>
  /\ \E p \in last.dropped : p[1] = trains[i].TrainId

\* the age of a Run or Delta at the current time
Age(delta) == now - delta.lastUpdated

C2_SelectedRunExists ==
  \A i \in 1..Len(trains) : trains[i].selectedRunId # None =>
    \E k \in 1..Len(trains[i].liveRuns) :
      trains[i].liveRuns[k].id = trains[i].selectedRunId

\* a sweep removed the Run a train was pinned to, and the train went on to
\* select another of its Runs
C2_Witness ==
  /\ last.kind = "prune"
  /\ \E i \in 1..Len(trains) :
       /\ trains[i].selectedRunId # None
       /\ \E p \in last.dropped :
            /\ p[1] = trains[i].TrainId
            /\ MapGet(selectedRunIds, trains[i].TrainId) = Some(p[2].id)

\* C3: a sweep at time now removes from every train exactly the Runs with
\* now - lastUpdated > TTL: every Run it removed is older than the TTL, and
\* every Run a train holds afterwards is not.
C3_TtlBoundary ==
  Swept =>
    /\ \A p \in last.dropped : Age(p[2]) > STALE_LIVE_RUN_TTL_MS
    /\ \A p \in RunsOf(trains) : Age(p[2]) <= STALE_LIVE_RUN_TTL_MS

\* one sweep removed a Run 1 ms past the TTL and kept a Run 1 ms short of it
C3_Witness ==
  /\ last.kind = "prune"
  /\ \E p \in last.dropped : Age(p[2]) = STALE_LIVE_RUN_TTL_MS + 1
  /\ \E p \in RunsOf(trains) : Age(p[2]) = STALE_LIVE_RUN_TTL_MS - 1

\* the trains with the top score above zero against a Delta
TopScorers(trainList, delta) ==
  {i \in 1..Len(trainList) :
     /\ Score(trainList[i], delta) > 0
     /\ \A j \in 1..Len(trainList) :
          Score(trainList[j], delta) <= Score(trainList[i], delta)}

Tied(trainList, delta) == Cardinality(TopScorers(trainList, delta)) >= 2

\* the store when the Deltas of the batch before position k are processed
StoreBefore(batch, k) == processDeltas(StoreState, SubSeq(batch, 1, k - 1))

\* after the step the Delta is in the unresolved pool and no train has got
\* it as a Run: a Run of its id is one the train held before, unchanged
WentUnresolved(delta) ==
  /\ delta.id \in DOMAIN unresolvedDeltas'
  /\ \A p \in RunsOf(trains') : p[2].id = delta.id => p \in RunsOf(trains)

NumberOwners(delta) ==
  {i \in 1..Len(trains) : Some(trains[i].TrainNumber) = delta.trainNumber}

\* the trains that hold a Run with the id of the Delta
Holders(delta) ==
  {i \in 1..Len(trains) :
     \E k \in 1..Len(trains[i].liveRuns) : trains[i].liveRuns[k].id = delta.id}

\* C5: in any store state, applying a Delta whose train-number hint is the
\* TrainNumber of exactly one train makes the Delta a Run of that train and
\* of no other.
C5_NumberHintLands ==
  last.kind = "apply" =>
    \A k \in 1..Len(last.batch) :
      Cardinality(NumberOwners(last.batch[k])) = 1
      => Holders(last.batch[k]) = NumberOwners(last.batch[k])

\* C6: applying the batch that was applied right before (the same Deltas,
\* identical in every field) leaves every train as the first application
\* left it.
C6_Idempotent == [][last'.again => trains' = trains]_vars

\* a Delta was applied twice in a row and is a Run of a train
C6_Witness ==
  /\ last.again
  /\ Len(last.batch) = 1
  /\ Holders(last.batch[1]) # {}

\* no train holds a Run older than the TTL
NoStaleRun == \A p \in RunsOf(trains) : Age(p[2]) <= STALE_LIVE_RUN_TTL_MS

\* C7: whatever the persisted tables hold, the train collection the cold
\* start publishes holds no Run with now - lastUpdated > TTL.
C7_ColdStartFresh == last.kind = "load" => NoStaleRun

\* the published state accounts for the Delta: it is the Run of its id on
\* the train it is cached for, or it is in the unresolved pool
Merged(delta) ==
  IF delta.id \in DOMAIN trainKeyToId
  THEN \E p \in RunsOf(trains) :
         /\ p[1] = trainKeyToId[delta.id]
         /\ p[2].id = delta.id
         /\ p[2].lastUpdated = delta.lastUpdated
  ELSE MapGet(unresolvedDeltas, delta.id) = Some(delta)

\* C8: a failed write of a batch does not keep the batch from being merged,
\* and a failed delete of the stale rows does not keep the sweep from running.
C8_FailureDoesNotBlock ==
  /\ last.kind = "applyFailed" => \A k \in 1..Len(last.batch) : Merged(last.batch[k])
  /\ last.kind = "pruneFailed" => NoStaleRun

\* C9: the state published by applyDeltas has every Delta of the batch
\* resolved and merged: none of the batch is left out of it.
C9_BatchAtomic ==
  last.kind = "apply" =>
    \A k \in 1..Len(last.batch) :
      /\ last.batch[k].trainKey \in DOMAIN liveDeltas
      /\ Merged(last.batch[k])

\* a batch of two Deltas was applied to the hydrated store, one of them
\* merged into a train and one left in the unresolved pool
C9_Witness ==
  /\ last.kind = "apply"
  /\ Len(last.batch) = 2
  /\ \E k \in 1..2 : Holders(last.batch[k]) # {}
  /\ \E k \in 1..2 : last.batch[k].id \in DOMAIN unresolvedDeltas

\* C10: after a sweep no train's Run set, nor the live-delta map, nor the
\* unresolved pool holds a Delta with now - lastUpdated > TTL.
C10_NothingOutlivesTtl ==
  Swept =>
    /\ NoStaleRun
    /\ \A key \in DOMAIN liveDeltas : Age(liveDeltas[key]) <= STALE_LIVE_RUN_TTL_MS
    /\ \A id \in DOMAIN unresolvedDeltas :
         Age(unresolvedDeltas[id]) <= STALE_LIVE_RUN_TTL_MS

\* the positions of the most recently updated Runs of train i
MostRecent(i) ==
  {k \in 1..Len(trains[i].liveRuns) :
     \A j \in 1..Len(trains[i].liveRuns) :
       trains[i].liveRuns[j].lastUpdated <= trains[i].liveRuns[k].lastUpdated}

\* C11: when selectTrainRun is never called, after every merge of a Delta
\* the selected Run of the train that received it is the most recently
\* updated Run of its merged Run set.
C11_UnpinnedSelectsMostRecent ==
  last.kind = "apply" =>
    \A i \in 1..Len(trains) :
      (\E k \in 1..Len(last.batch) : i \in Holders(last.batch[k])) =>
        \E k \in MostRecent(i) : trains[i].liveRuns[k].id = trains[i].selectedRunId

\* C12: no feed batch is applied to the store before the cold-start
\* reconciliation has completed (the dataset is loaded, the persisted Deltas
\* are replayed and setDataset has published the result).
C12_NoBatchBeforeHydration == last.kind = "apply" => isDatasetHydrated

\* the store the live path starts from: the given trains and empty maps
FreshStore(trainList) ==
  [trains |-> trainList, liveDeltas |-> EmptyMap, trainKeyToId |-> EmptyMap,
   selectedRunIds |-> EmptyMap, unresolvedDeltas |-> EmptyMap]

\* per train, its Run set and its selected Run
RunView(trainList) ==
  [i \in 1..Len(trainList) |->
     [runs |-> {trainList[i].liveRuns[k] : k \in 1..Len(trainList[i].liveRuns)},
      selected |-> trainList[i].selectedRunId]]

\* C13: replaying the persisted Deltas (in lastUpdated order) onto the static
\* trains through applyStoredLiveDeltas yields for each train the same Run
\* set and selected Run as applying the same Deltas in the same order through
\* processDeltas followed by one sweep at the same time.
C13_ReplayMatchesLive ==
  RunView(applyStoredLiveDeltas(StaticTrains, dbDeltas, now))
    = RunView(applyDeltasSet(FreshStore(StaticTrains),
                             DeltasByLastUpdated(dbDeltas), now).trains)

\* C14: in every reachable state the live count equals the number of trains
\* that hold at least one Run.
C14_LiveCountIsLiveTrains ==
  liveCount = Cardinality({i \in 1..Len(trains) : trains[i].liveRuns # <<>>})

\* C16: for the same now, the prune of the persisted store deletes a Delta
\* exactly when the in-memory sweep drops a Run, or a live-delta entry, with
\* the same lastUpdated: both decide by now - lastUpdated > TTL.
C16_StoresAgree ==
  [][last'.kind = "prune" =>
       \A id \in DOMAIN dbDeltas :
         LET row == dbDeltas[id]
             deleted == id \notin DOMAIN dbDeltas'
         IN /\ deleted <=> ~isRunFresh(row, now)
            /\ deleted <=> (DOMAIN freshLiveDeltas([k \in {id} |-> row], now) = {})
            /\ \A p \in RunsOf(trains) :
                 p[2].lastUpdated = row.lastUpdated => (deleted <=> p \in last'.dropped)
            /\ \A key \in DOMAIN liveDeltas :
                 liveDeltas[key].lastUpdated = row.lastUpdated
                 => (deleted <=> key \notin DOMAIN liveDeltas')]_vars

\* a sweep dropped a Run 1 ms past the TTL whose row is gone from the
\* persisted store, and a row aged exactly the TTL is still there
C16_Witness ==
  /\ last.kind = "prune"
  /\ \E p \in last.dropped :
       /\ Age(p[2]) = STALE_LIVE_RUN_TTL_MS + 1
       /\ p[2].id \notin DOMAIN dbDeltas
  /\ \E id \in DOMAIN dbDeltas :
       /\ Age(dbDeltas[id]) = STALE_LIVE_RUN_TTL_MS
       /\ \E p \in RunsOf(trains) : p[2].id = id

\* C15: a connection-lifecycle transition (to connecting, connected,
\* reconnecting, disconnected or error, with or without the last error set)
\* leaves the train collection with every Run set, the live-delta map, the
\* resolution cache, the pin map and the unresolved pool unchanged.
C15_LifecycleKeepsState ==
  [][last'.kind = "connection" =>
       /\ trains' = trains
       /\ liveDeltas' = liveDeltas
       /\ trainKeyToId' = trainKeyToId
       /\ selectedRunIds' = selectedRunIds
       /\ unresolvedDeltas' = unresolvedDeltas]_vars

\* the connection reported an error and is reconnecting while the store
\* holds a Run, a cached resolution, a pin and an unresolved Delta
C15_Witness ==
  /\ last.kind = "connection"
  /\ connectionStatus = "reconnecting"
  /\ lastError # None
  /\ RunsOf(trains) # {}
  /\ DOMAIN trainKeyToId # {}
  /\ DOMAIN selectedRunIds # {}
  /\ DOMAIN unresolvedDeltas # {}

\* C17: after the dataset or a train snapshot has been persisted at time t,
\* the freshness check on the "last updated" record reports fresh while less
\* than 1 hour has elapsed since t, and not fresh once more than 1 hour has.
C17_FreshWithinTheHour ==
  \A name \in DOMAIN dbLastUpdated :
    /\ now - dbLastUpdated[name] < ONE_HOUR => hasRecentData(dbLastUpdated, now, ONE_HOUR)
    /\ now - dbLastUpdated[name] > ONE_HOUR => ~hasRecentData(dbLastUpdated, now, ONE_HOUR)

\* every checkDatabase() call that was started has ended
ChecksDone == checks # <<>> /\ \A i \in 1..Len(checks) : checks[i] = "done"

\* C18: the open of the persisted store is retried after a schema error
\* exactly once per start-up, and once the retry has ended the check with
\* the status available or unavailable, the status stays and the database
\* check is not started again.
C18_OpenSettles ==
  [][/\ retries' <= 1
     /\ (retries = 1 /\ ChecksDone /\ dbStatus \in {"available", "unavailable"}) =>
          (dbStatus' = dbStatus /\ Len(checks') = Len(checks))]_vars

\* C19: across any sequence of connectLiveSocket calls and cleanup calls, at
\* most one connection exists, and a connection exists exactly when at least
\* one subscriber is registered (it is created with the first subscriber and
\* torn down when the last one unsubscribes).
C19_ConnectionIffSubscriber ==
  /\ Cardinality(connections) <= 1
  /\ connections # {} <=> \E h \in 1..Len(handles) : handles[h].registered

\* what a read of the cache must return for the TrainId: the data of the last
\* put that was stored under it, with the TrainId it was stored under
Expected(trainId) ==
  IF trainId \in DOMAIN stored
  THEN Some([TrainId |-> trainId, stations |-> stored[trainId].stations])
  ELSE None

\* C20: after setCachedTrack(id, data), getCachedTrack(id) returns the data
\* last stored for that id, its stations unchanged and its TrainId equal to
\* id, whatever was stored for other ids.
C20_TrackRoundTrip ==
  /\ \A trainId \in TrainIds : getCachedTrack(dbTracks, trainId) = Expected(trainId)
  /\ (last.kind = "trackGet" /\ trackRead[1].resolved) =>
       trackRead[1].result = Expected(trackRead[1].trainId)

\* a read returned the data cached under a TrainId other than the one in the
\* data, while another TrainId holds other data
C20_Witness ==
  /\ last.kind = "trackGet"
  /\ trackRead[1].resolved
  /\ trackRead[1].result # None
  /\ stored[trackRead[1].trainId].TrainId # trackRead[1].trainId
  /\ \E other \in DOMAIN stored :
       /\ other # trackRead[1].trainId
       /\ stored[other].stations # stored[trackRead[1].trainId].stations

\* C21: getCachedTrack(id) returns undefined for every id under which no
\* track was ever stored, and the call never throws: a rejected read of the
\* table ends it with undefined as well.
C21_MissingIsUndefined ==
  /\ \A trainId \in TrackKeys \ DOMAIN stored : getCachedTrack(dbTracks, trainId) = None
  /\ last.kind = "trackGet" =>
       /\ ~trackRead[1].threw
       /\ trackRead[1].trainId \notin DOMAIN stored => trackRead[1].result = None

\* the cache holds tracks, and a read under the id of no train, which the
\* table rejected, ended with undefined
C21_Witness ==
  /\ last.kind = "trackGet"
  /\ trackRead[1].trainId = MissingTrainId
  /\ ~trackRead[1].resolved
  /\ trackRead[1].result = None
  /\ DOMAIN stored # {}

\* C22: the train-number short-circuit of the resolver is taken only when
\* exactly one train has the number hint of the Delta as TrainNumber; when
\* two or more trains share the number (or none has it) the result is the
\* one the scoring steps decide.
C22_ShortCircuitNeedsOneOwner ==
  last.kind = "resolve" =>
    (Cardinality(NumberOwners(probe[1])) # 1 => resolved = ScoredMatch(trains, probe[1]))

\* the station is a stop of the route
InRoute(train, stationId) ==
  \E i \in 1..Len(train.route) : Some(train.route[i].StationId) = stationId

\* the score the resolution order gives a train against a Delta, in quarter
\* points: locomotive 10, next station 4, previous station 4, previous before
\* next 1, direction 1, next-stop name 0.5 or else train name 0.25
ClaimedScore(train, delta) ==
  (IF delta.locomitiveNo # "" /\ delta.locomitiveNo = train.LocomotiveNumber THEN 40 ELSE 0)
  + (IF InRoute(train, delta.nextStationId) THEN 16 ELSE 0)
  + (IF InRoute(train, delta.prevStationId) THEN 16 ELSE 0)
  + (IF \E i, j \in 1..Len(train.route) :
          /\ i < j
          /\ Some(train.route[i].StationId) = delta.prevStationId
          /\ Some(train.route[j].StationId) = delta.nextStationId THEN 4 ELSE 0)
  + (IF \/ delta.direction = "up" /\ train.IsUp
        \/ delta.direction = "down" /\ ~train.IsUp THEN 4 ELSE 0)
  + (IF delta.nextStopName = <<>> THEN 0
     ELSE IF \E i \in 1..Len(train.route) :
               ToLower(train.route[i].StationName) = ToLower(delta.nextStopName) THEN 2
     ELSE IF Includes(ToLower(train.TrainName), ToLower(delta.nextStopName)) THEN 1
     ELSE 0)

\* train i has a score above zero that is above the score of every other train
StrictlyBest(i, delta) ==
  /\ ClaimedScore(trains[i], delta) > 0
  /\ \A j \in (1..Len(trains)) \ {i} :
       ClaimedScore(trains[j], delta) < ClaimedScore(trains[i], delta)

\* C23: when the short-circuit does not apply, findMatchingTrainId returns
\* train T iff the score of T (locomotive +10, next station in route +4,
\* previous station in route +4, previous before next +1, direction +1,
\* next-stop name a route station name +0.5 else part of the train name
\* +0.25) is above zero and above the score of every other train; otherwise
\* it returns unresolved.
C23_StrictlyBestWins ==
  (last.kind = "resolve" /\ NumberMatch(trains, probe[1]) = None) =>
    /\ \A i \in 1..Len(trains) :
         resolved = Some(trains[i].TrainId) <=> StrictlyBest(i, probe[1])
    /\ (\A i \in 1..Len(trains) : ~StrictlyBest(i, probe[1])) => resolved = None

\* a Delta with no train number was resolved by half a point: two trains
\* match its locomotive and its next station, one of them also has a station
\* of the name of its next stop
C23_Witness ==
  /\ last.kind = "resolve"
  /\ probe[1].trainNumber = None
  /\ resolved # None
  /\ \E i, j \in 1..Len(trains) :
       /\ resolved = Some(trains[i].TrainId)
       /\ ClaimedScore(trains[i], probe[1]) = ClaimedScore(trains[j], probe[1]) + 2
       /\ ClaimedScore(trains[j], probe[1]) >= 56

\* the Delta is the Run of its identity on train id and on no other train
RunOfOnly(trainList, delta, id) ==
  /\ \E p \in RunsOf(trainList) :
       p[1] = id /\ p[2].id = delta.id /\ p[2].lastUpdated = delta.lastUpdated
  /\ \A p \in RunsOf(trainList) : p[2].id = delta.id => p[1] = id

\* C24: once a Delta with identity X (trainKey:variantKey) has been attributed
\* to train T, every later Delta with identity X is attributed to T, whatever
\* the scoring steps would make of it, and the train cached for an identity
\* never changes.
C24_CachedTargetKept ==
  [][/\ \A x \in RunIds \cap DOMAIN trainKeyToId :
          x \in DOMAIN trainKeyToId' /\ trainKeyToId'[x] = trainKeyToId[x]
     /\ last'.kind = "apply" =>
          \A k \in 1..Len(last'.batch) :
            last'.batch[k].id \in DOMAIN trainKeyToId =>
              RunOfOnly(trains', last'.batch[k], trainKeyToId[last'.batch[k].id])]_vars

\* a Delta went to the train cached for its identity although the scoring
\* steps find no train for it: its identity was attributed before, on other
\* evidence
C24_Witness ==
  /\ last.kind = "apply"
  /\ \E k \in 1..Len(last.batch) :
       /\ last.batch[k].id \in DOMAIN trainKeyToId
       /\ RunOfOnly(trains, last.batch[k], trainKeyToId[last.batch[k].id])
       /\ findMatchingTrainId(trains, last.batch[k]) = None
       /\ DOMAIN trainKeyToId = {last.batch[k].id, last.batch[k].trainKey,
                                 last.batch[k].variantKey}

\* the ids of the Deltas of a batch
IdsOf(batch) == {batch[k].id : k \in 1..Len(batch)}

\* no identity is in the unresolved pool and a Run of a train
PoolDisjoint ==
  \A id \in DOMAIN unresolvedDeltas : \A p \in RunsOf(trains) : p[2].id # id

\* an applied batch leaves the pool entries of the other identities alone,
\* and an identity of the batch is in the pool afterwards exactly when its
\* latest Delta has become a Run of no train
PoolFollowsBatch ==
  last'.kind = "apply" =>
    /\ \A id \in (DOMAIN unresolvedDeltas \cup DOMAIN unresolvedDeltas') \ IdsOf(last'.batch) :
         MapGet(unresolvedDeltas', id) = MapGet(unresolvedDeltas, id)
    /\ \A k \in 1..Len(last'.batch) :
         (\A j \in (k + 1)..Len(last'.batch) : last'.batch[j].id # last'.batch[k].id) =>
           ( MapGet(unresolvedDeltas', last'.batch[k].id) = Some(last'.batch[k])
             <=> ~\E p \in RunsOf(trains') :
                    /\ p[2].id = last'.batch[k].id
                    /\ p[2].lastUpdated = last'.batch[k].lastUpdated )

\* C25: a Delta identity is in the unresolved pool exactly when the latest
\* applied Delta with that identity could not be attributed to a train;
\* applying a batch changes only the pool entries of the identities of that
\* batch; and no identity is at the same time in the pool and in the Run set
\* of some train.
C25_PoolExact == [][PoolFollowsBatch /\ PoolDisjoint']_vars

\* the Run set of a train holds one Run per identity at most and is ordered
\* by lastUpdated descending
RunsKeyedAndSorted(train) ==
  \A j, k \in 1..Len(train.liveRuns) :
    j < k => /\ train.liveRuns[j].id # train.liveRuns[k].id
             /\ train.liveRuns[j].lastUpdated >= train.liveRuns[k].lastUpdated

\* the Runs of a train whose identity is not among ids
OtherRuns(train, ids) ==
  {train.liveRuns[k] : k \in {j \in 1..Len(train.liveRuns) : train.liveRuns[j].id \notin ids}}

\* the fields of a Delta that a merge takes over as they are
Payload(delta) == [delta EXCEPT !.dayNumber = None]

\* C26: in every reachable state the Run set of each train holds at most one
\* Run per Delta identity and is ordered by lastUpdated descending; merging a
\* Delta replaces the Run with the same identity (the Run of that identity
\* is the Delta merged last) and leaves the other Runs of every train as
\* they were.
C26_RunsKeyedSortedReplaced ==
  [][/\ \A i \in 1..Len(trains') : RunsKeyedAndSorted(trains'[i])
     /\ (last'.kind = "apply" /\ Len(trains) = Len(trains')) =>
          /\ \A i \in 1..Len(trains) :
               OtherRuns(trains'[i], IdsOf(last'.batch))
                 = OtherRuns(trains[i], IdsOf(last'.batch))
          /\ \A k \in 1..Len(last'.batch) : \A p \in RunsOf(trains') :
               p[2].id = last'.batch[k].id => Payload(p[2]) = Payload(last'.batch[k])]_vars

\* a train holds two Runs, the newer one a Delta that replaced the earlier
\* report of its source: alone the Delta matches no train, and the cache
\* holds no identity but those of the two Runs
C26_Witness ==
  /\ last.kind = "apply"
  /\ \E i \in 1..Len(trains) :
       /\ Len(trains[i].liveRuns) = 2
       /\ trains[i].liveRuns[1].id = last.batch[1].id
       /\ trains[i].liveRuns[1].lastUpdated > trains[i].liveRuns[2].lastUpdated
       /\ findMatchingTrainId(trains, last.batch[1]) = None
       /\ \A key \in DOMAIN trainKeyToId :
            key \in {last.batch[1].id, trains[i].liveRuns[2].id} \/ \A c \in 1..Len(key) : key[c] # ":"

\* the entry of the route of the train for a station id: the first entry
\* with that id, absent when the id is missing or no entry has it
RouteEntry(train, stationId) ==
  IF stationId = None \/ ~InRoute(train, stationId) THEN None
  ELSE Some(train.route[CHOOSE i \in 1..Len(train.route) :
              /\ Some(train.route[i].StationId) = stationId
              /\ \A j \in 1..(i - 1) : Some(train.route[j].StationId) # stationId])

\* the Runs of the train with the id
RunsWithId(train, runId) ==
  {train.liveRuns[k] : k \in {j \in 1..Len(train.liveRuns) : train.liveRuns[j].id = runId}}

\* C27: selectTrainRun(T, R) never alters the Run set of any train; if R is
\* a Run of T, it becomes the selected Run and the livePosition of T, with
\* the stops of T recomputed from R, and the other trains stay as they are;
\* if R is not a Run of T, or T does not exist, the train collection is left
\* unchanged.
C27_SelectionFrame ==
  [][last'.kind = "pick" =>
       /\ Len(trains') = Len(trains)
       /\ \A i \in 1..Len(trains) :
            /\ trains'[i].liveRuns = trains[i].liveRuns
            /\ IF trains[i].TrainId = last'.trainId
                  /\ RunsWithId(trains[i], last'.runId) # {}
               THEN \E run \in RunsWithId(trains[i], last'.runId) :
                      /\ trains'[i].selectedRunId = last'.runId
                      /\ trains'[i].livePosition = Some(run)
                      /\ trains'[i].upcomingStop = RouteEntry(trains[i], run.nextStationId)
                      /\ trains'[i].previousStop = RouteEntry(trains[i], run.prevStationId)
               ELSE trains'[i] = trains[i]]_vars

\* a Run of a train with two Runs at different stations was selected: the
\* train shows the stops of that Run, and the other Run is the newer one
C27_Witness ==
  /\ last.kind = "pick"
  /\ \E i \in 1..Len(trains) :
       /\ trains[i].TrainId = last.trainId
       /\ Len(trains[i].liveRuns) = 2
       /\ trains[i].liveRuns[2].id = last.runId
       /\ trains[i].selectedRunId = last.runId
       /\ trains[i].liveRuns[1].lastUpdated > trains[i].liveRuns[2].lastUpdated
       /\ trains[i].liveRuns[1].nextStationId # trains[i].liveRuns[2].nextStationId
       /\ trains[i].upcomingStop # None
       /\ trains[i].previousStop # None

\* C28: after selectTrainRun(T, R) succeeded, R stays the selected Run of T
\* across every later applyDeltas, also of Deltas that are newer Runs of T,
\* for as long as R is a Run of T (and no other Run of T is selected by a
\* later call).
C28_PinKept ==
  \A i \in 1..Len(trains) :
    (/\ trains[i].TrainId \in DOMAIN pinned
     /\ RunsWithId(trains[i], pinned[trains[i].TrainId]) # {})
    => /\ trains[i].selectedRunId = pinned[trains[i].TrainId]
       /\ trains[i].livePosition \in
            {Some(run) : run \in RunsWithId(trains[i], pinned[trains[i].TrainId])}

\* a Delta was merged into a train as its most recent Run, and the train
\* stays on the older Run that was selected by a selectTrainRun call
C28_Witness ==
  /\ last.kind = "apply"
  /\ \E i \in 1..Len(trains) :
       /\ trains[i].TrainId \in DOMAIN pinned
       /\ Len(trains[i].liveRuns) = 2
       /\ trains[i].liveRuns[1].id = last.batch[1].id
       /\ trains[i].liveRuns[1].lastUpdated > trains[i].liveRuns[2].lastUpdated
       /\ trains[i].liveRuns[2].id = pinned[trains[i].TrainId]
       /\ trains[i].selectedRunId = pinned[trains[i].TrainId]

\* C29: in every reachable state, for each train with a selected Run,
\* upcomingStop is the route entry whose station id is the next-station id of
\* the selected Run and previousStop the entry for its previous-station id; a
\* station id with no route entry, or a missing id, gives an absent stop.
C29_StopsFollowSelectedRun ==
  \A i \in 1..Len(trains) :
    trains[i].selectedRunId # None =>
      \E run \in RunsWithId(trains[i], trains[i].selectedRunId) :
        /\ trains[i].upcomingStop = RouteEntry(trains[i], run.nextStationId)
        /\ trains[i].previousStop = RouteEntry(trains[i], run.prevStationId)

\* a train holds two Runs; the selected one is bound for a station that is
\* not on the route of the train and names no previous station, and the
\* train has no upcoming and no previous stop
C29_Witness ==
  \E i \in 1..Len(trains) :
    /\ Len(trains[i].liveRuns) = 2
    /\ \E run \in RunsWithId(trains[i], trains[i].selectedRunId) :
         /\ run.nextStationId # None
         /\ ~InRoute(trains[i], run.nextStationId)
         /\ run.prevStationId = None
    /\ \E k \in 1..2 : InRoute(trains[i], trains[i].liveRuns[k].nextStationId)
    /\ trains[i].upcomingStop = None
    /\ trains[i].previousStop = None

\* C30: for every raw payload, each numeric optional field of the produced
\* Delta (speed, lateBy, nextStationId, prevStationId) is a finite number or
\* null; an absent or unparseable text gives null, never NaN.
C30_NumericFieldsFiniteOrNull ==
  parsed # None =>
    \A v \in {parsed[1].speed, parsed[1].lateBy,
              parsed[1].nextStationId, parsed[1].prevStationId} :
      v = JsNull \/ IsFiniteNumber(v)

\* C31: the train-number hint of a key ending in "099900" is the number
\* formed by the key with those six characters stripped; of a key ending in
\* "9900" and not in "099900", the key with four characters stripped; of any
\* other key, the whole key parsed as a number.
C31_HintRule ==
  hintKey # None =>
    hint = IF EndsWith(hintKey[1], Suffix099900)
             THEN NumberOf(DropLast(hintKey[1], 6))
           ELSE IF EndsWith(hintKey[1], Suffix9900)
             THEN NumberOf(DropLast(hintKey[1], 4))
           ELSE NumberOf(hintKey[1])

RunHolders(trainList, delta) ==
  {i \in 1..Len(trainList) :
     \E k \in 1..Len(trainList[i].liveRuns) : trainList[i].liveRuns[k].id = delta.id}

\* the Delta is a Run of exactly one train of the list
IsRunOfOneTrain(trainList, delta) ==
  /\ Cardinality(RunHolders(trainList, delta)) = 1
  /\ \A i \in RunHolders(trainList, delta) :
       \E k \in 1..Len(trainList[i].liveRuns) :
         Payload(trainList[i].liveRuns[k]) = Payload(delta)

\* the Delta is an entry of the unresolved pool
IsPooled(pool, delta) == delta.id \in DOMAIN pool /\ pool[delta.id] = delta

Subscribed == {h \in 1..Len(handles) : handles[h].registered}

\* C34: every subscriber of connectLiveSocket gets its own lifecycle
\* callbacks invoked on the matching connection event while it is subscribed,
\* and none of its callbacks is invoked after its cleanup ran, whether it was
\* the first subscriber or a later one: an event runs the callback of
\* exactly the subscribed callers that passed one for it.
C34_OwnCallbacksWhileSubscribed ==
  last.kind = "event" =>
    dispatched[1].callbacks =
      {h \in Subscribed : CallbackOf(dispatched[1].event) \in EventsOf(handles[h].handler)}

\* C35: each cleanup ends only its own subscription: while a subscription
\* whose cleanup has not been called exists (also when two subscriptions
\* passed the same function) the connection stays open and the handler of
\* that subscription receives every non-empty batch.
C35_CleanupEndsOnlyItsOwn ==
  Subscribed # {} =>
    /\ singletonSocket # None
    /\ singletonSocket[1] \in connections
    /\ (last.kind = "data" /\ ~dispatched[1].empty) =>
         \A h \in Subscribed : handles[h].handler \in dispatched[1].handlers

\* the position of the train is the Run of its Run set that selectedRunId names
PositionIsSelectedRun(train) ==
  \E k \in 1..Len(train.liveRuns) :
    /\ train.liveRuns[k].id = train.selectedRunId
    /\ train.livePosition = Some(train.liveRuns[k])

\* C36: in every state published by applyDeltas, pruneStaleRuns or
\* selectTrainRun, the livePosition of a train is set iff its Run set is
\* non-empty, and then the is-live flag is true and livePosition is the Run
\* whose id is selectedRunId.
C36_PositionIffRuns ==
  last.kind \in {"apply", "prune", "select"} =>
    \A i \in 1..Len(trains) :
      /\ trains[i].livePosition # None <=> trains[i].liveRuns # <<>>
      /\ trains[i].liveRuns # <<>> =>
           trains[i].IsLive /\ PositionIsSelectedRun(trains[i])

\* applyDeltas published a train of two Runs whose position is the older
\* Run, the one selected, beside a train without Runs and without position
C36_Witness ==
  /\ last.kind = "apply"
  /\ \E i, j \in 1..Len(trains) :
       /\ Len(trains[i].liveRuns) = 2
       /\ trains[i].selectedRunId = trains[i].liveRuns[2].id
       /\ trains[i].livePosition = Some(trains[i].liveRuns[2])
       /\ trains[i].IsLive
       /\ trains[j].liveRuns = <<>>
       /\ trains[j].livePosition = None

====
